---------------------------- MODULE Spec2Model ----------------------------
(***************************************************************************)
(* som-networks: the group-invitation endpoint                             *)
(*   POST /api/groups/[chatId]/participants/add                            *)
(* (src/app/api/groups/route.ts, lines 57-283), the course and student     *)
(* endpoints with their mongoose schemas, and the two forms in which a     *)
(* student's sessions are chosen.                                          *)
(*                                                                         *)
(* Strings are sequences of symbols.  A symbol is one character, except    *)
(* for a few multi-character chunks the code never looks inside            *)
(* ("https://", "chat.whatsapp.com/", participant identifiers, object      *)
(* keys, fixed message texts).  Digits, quotes, blanks and the letters of  *)
(* "success" are single characters, so that includes(), toLowerCase(),     *)
(* trim() and replace() are computed as the code computes them.            *)
(*                                                                         *)
(* JavaScript values are tagged records: t is the type tag, and the other  *)
(* field holds the payload.                                                *)
(***************************************************************************)
EXTENDS Integers, Sequences, FiniteSets, TLC

(***************************************************************************)
(* Bounds of the model.                                                    *)
(***************************************************************************)
\* longest participants array a request carries
MaxParticipants == 2
\* the last instant at which a document is written
MaxClock == 3

(***************************************************************************)
(* Constants of the program.                                               *)
(***************************************************************************)
\* line 172: responseBody.substring(0, 100)
StringErrorLimit == 100
\* line 236: inviteText.substring(0, 200)
InviteErrorLimit == 200

(***************************************************************************)
(* String primitives (ECMAScript String.prototype).                        *)
(***************************************************************************)
Min(a, b) == IF a < b THEN a ELSE b

\* the least 1-based position at which pat occurs in s, 0 when it does not
IndexOf(s, pat) ==
  LET hits == {i \in 1..(Len(s) - Len(pat) + 1) : SubSeq(s, i, i + Len(pat) - 1) = pat}
  IN  IF hits = {} THEN 0 ELSE CHOOSE i \in hits : \A j \in hits : i <= j

\* s.includes(pat)
Includes(s, pat) == IndexOf(s, pat) # 0

\* s.replace(pat, "") with a string pattern: the first occurrence only
RemoveFirst(s, pat) ==
  LET i == IndexOf(s, pat)
  IN  IF i = 0 THEN s ELSE SubSeq(s, 1, i - 1) \o SubSeq(s, i + Len(pat), Len(s))

IsSpace(c) == c \in {" ", "\n", "\t"}

RECURSIVE TrimStart(_)
TrimStart(s) == IF s # <<>> /\ IsSpace(Head(s)) THEN TrimStart(Tail(s)) ELSE s

RECURSIVE TrimEnd(_)
TrimEnd(s) ==
  IF s # <<>> /\ IsSpace(s[Len(s)]) THEN TrimEnd(SubSeq(s, 1, Len(s) - 1)) ELSE s

\* s.trim()
Trim(s) == TrimEnd(TrimStart(s))

LowerChar(c) ==
  CASE c = "S" -> "s" [] c = "U" -> "u" [] c = "C" -> "c" [] c = "E" -> "e"
    [] c = "O" -> "o" [] c = "K" -> "k"
    [] OTHER -> c

\* s.toLowerCase()
ToLowerCase(s) == [i \in 1..Len(s) |-> LowerChar(s[i])]

\* s.substring(0, n)
Substring0(s, n) == SubSeq(s, 1, Min(n, Len(s)))

\* s.replace(/^"|"$/g, ""): a leading quote and a trailing quote are removed
StripQuotes(s) ==
  LET a == IF s # <<>> /\ Head(s) = "\"" THEN Tail(s) ELSE s
  IN  IF a # <<>> /\ a[Len(a)] = "\"" THEN SubSeq(a, 1, Len(a) - 1) ELSE a

Digit(d) == <<"0", "1", "2", "3", "4", "5", "6", "7", "8", "9">>[d + 1]

\* String(n) for a natural number n
RECURSIVE NumToStr(_)
NumToStr(n) == IF n < 10 THEN <<Digit(n)>> ELSE NumToStr(n \div 10) \o <<Digit(n % 10)>>

(***************************************************************************)
(* JavaScript values.                                                      *)
(***************************************************************************)
Undefined == [t |-> "undefined"]
JNull     == [t |-> "null"]
JBool(b)  == [t |-> "boolean", b |-> b]
JNum(n)   == [t |-> "number", n |-> n]
JStr(s)   == [t |-> "string", s |-> s]
\* an object: its own properties in insertion order, each [k |-> key, v |-> value]
JObj(m)   == [t |-> "object", m |-> m]
\* a function object (only String.prototype.link is ever met)
JFunc     == [t |-> "function"]

Prop(k, v) == [k |-> k, v |-> v]

\* ToBoolean(v)
Truthy(v) ==
  CASE v.t = "undefined" -> FALSE
    [] v.t = "null"      -> FALSE
    [] v.t = "boolean"   -> v.b
    [] v.t = "number"    -> v.n # 0
    [] v.t = "string"    -> v.s # <<>>
    [] OTHER             -> TRUE

\* a || b
Or(a, b) == IF Truthy(a) THEN a ELSE b

\* v[key] for a v that is neither null nor undefined.  An object answers with
\* its own property; a string inherits String.prototype.link (ECMAScript
\* Annex B); no other key the handler reads is inherited.
Get(v, key) ==
  CASE v.t = "object" ->
         IF \E i \in 1..Len(v.m) : v.m[i].k = key
         THEN v.m[CHOOSE i \in 1..Len(v.m) : v.m[i].k = key].v
         ELSE Undefined
    [] v.t = "string" /\ key = "link" -> JFunc
    [] OTHER -> Undefined

\* String(v), as a template literal converts v
ToJSString(v) ==
  CASE v.t = "string"    -> v.s
    [] v.t = "number"    -> NumToStr(v.n)
    [] v.t = "boolean"   -> IF v.b THEN <<"true">> ELSE <<"false">>
    [] v.t = "null"      -> <<"null">>
    [] v.t = "undefined" -> <<"undefined">>
    [] OTHER             -> <<"[object Object]">>

\* JSON.stringify(v) for null, booleans, naturals, strings and objects
RECURSIVE Stringify(_)
RECURSIVE StringifyProps(_)
StringifyProps(m) ==
  IF m = <<>> THEN <<>>
  ELSE <<"\"", Head(m).k, "\"", ":">> \o Stringify(Head(m).v)
       \o (IF Tail(m) = <<>> THEN <<>> ELSE <<",">> \o StringifyProps(Tail(m)))
Stringify(v) ==
  CASE v.t = "null"    -> <<"n", "u", "l", "l">>
    [] v.t = "boolean" -> IF v.b THEN <<"true">> ELSE <<"false">>
    [] v.t = "number"  -> NumToStr(v.n)
    [] v.t = "string"  -> <<"\"">> \o v.s \o <<"\"">>
    [] OTHER           -> <<"{">> \o StringifyProps(v.m) \o <<"}">>

(***************************************************************************)
(* What the external service can be seen to answer.                        *)
(***************************************************************************)
ParticipantIds == {"1234@c.us", "5678@c.us"}
ChatIds == {"120363@g.us"}

Success == <<"S", "u", "c", "c", "e", "s", "s">>
Two00   == <<"2", "0", "0">>

\* bodies of the add-participant answer that are JSON
AddJson ==
  { JObj(<<Prop("1234@c.us", JObj(<<Prop("code", JNum(200))>>))>>),
    JObj(<<Prop("1234@c.us", JObj(<<Prop("code", JNum(403)),
                                    Prop("message", JStr(<<"not an admin">>))>>))>>),
    JObj(<<Prop("1234@c.us", JObj(<<Prop("code", JNum(403))>>))>>),
    JObj(<<Prop("1234@c.us", JObj(<<>>))>>),
    JObj(<<Prop("1234@c.us", JNull), Prop("code", JNum(200))>>),
    JObj(<<Prop("1234@c.us", JObj(<<Prop("code", JNum(403))>>)), Prop("code", JNum(200))>>),
    JObj(<<Prop("1234@c.us", JObj(<<Prop("code", JNum(200))>>)), Prop("error", JStr(<<"partial">>))>>),
    JObj(<<Prop("1234@c.us", JObj(<<Prop("code", JNum(403))>>)), Prop("error", JStr(<<"rate limited">>))>>),
    JObj(<<Prop("code", JNum(200))>>),
    JObj(<<Prop("code", JNum(500))>>),
    JObj(<<Prop("success", JBool(TRUE))>>),
    JObj(<<Prop("success", JBool(FALSE))>>),
    JObj(<<Prop("error", JStr(<<"rate limited">>))>>),
    JObj(<<Prop("error", JStr(<<"rate limited">>)), Prop("code", JNum(200))>>),
    JObj(<<>>),
    JNull,
    JBool(TRUE),
    JNum(200),
    JStr(Success),
    JStr(<<"f", "a", "i", "l">>) }

\* bodies of the add-participant answer that are not JSON
AddRawTexts ==
  { <<>>,
    <<"O", "K", " ">> \o Two00,
    <<"S", "U", "C", "C", "E", "S", "S">>,
    <<"B", "a", "d", " ", "G", "a", "t", "e", "w", "a", "y">> }

\* bodies of the invite-code answer that are JSON
InviteJson ==
  { JObj(<<Prop("inviteCode", JStr(<<"ABC123">>))>>),
    JObj(<<Prop("code", JStr(<<"ABC123">>))>>),
    JObj(<<Prop("data", JStr(<<" ", "ABC123", " ">>))>>),
    JObj(<<Prop("link", JStr(<<"https://", "chat.whatsapp.com/", "ABC123">>))>>),
    JObj(<<Prop("invite", JStr(<<"chat.whatsapp.com/", "ABC123">>))>>),
    JObj(<<Prop("inviteCode", JStr(<<>>)), Prop("code", JStr(<<"XYZ789">>))>>),
    JObj(<<Prop("inviteCode", JStr(<<"ABC123">>)), Prop("code", JStr(<<"XYZ789">>))>>),
    JObj(<<Prop("inviteCode", JStr(<<" ">>))>>),
    JObj(<<Prop("inviteCode", JNum(123))>>),
    JObj(<<Prop("inviteCode", JNull)>>),
    JObj(<<Prop("error", JStr(<<"rate limited">>))>>),
    JObj(<<>>),
    JStr(<<"ABC123">>),
    JStr(<<>>),
    JNum(123),
    JNum(0),
    JNull }

\* bodies of the invite-code answer that are not JSON
InviteRawTexts ==
  { <<>>,
    <<"ABC123">>,
    <<"https://", "chat.whatsapp.com/", "ABC123">>,
    <<" ">>,
    <<"N", "o", "t", " ", "F", "o", "u", "n", "d">> }

\* the JSON documents of the model; every other text is not JSON
JsonDomain == AddJson \cup InviteJson

AddTexts    == {Stringify(v) : v \in AddJson} \cup AddRawTexts
InviteTexts == {Stringify(v) : v \in InviteJson} \cup InviteRawTexts

\* HTTP statuses of the external service's answers
AddStatuses    == {200, 500}
InviteStatuses == {200, 404}

\* response.ok
IsOk(status) == status >= 200 /\ status <= 299

\* each JSON document of the model with its serialization
JsonDocuments == {[text |-> Stringify(v), value |-> v] : v \in JsonDomain}

\* JSON.parse(text): the document whose serialization text is; a text that is
\* no document's serialization makes JSON.parse throw
JSONParse(text) ==
  IF \E d \in JsonDocuments : d.text = text
  THEN [ok |-> TRUE, value |-> (CHOOSE d \in JsonDocuments : d.text = text).value]
  ELSE [ok |-> FALSE, value |-> Undefined]

(***************************************************************************)
(* The handler, POST /api/groups/[chatId]/participants/add.                *)
(***************************************************************************)
\* an array of participant objects {id}; a holds the ids
JArr(a) == [t |-> "array", a |-> a]

\* the body NextResponse.json() is given; a field that is undefined is absent
\* from the JSON sent.  The constant note and the curlCommand rendering of
\* participantId and messageToSend are left out.
Envelope ==
  [success |-> Undefined, data |-> Undefined, error |-> Undefined,
   method |-> Undefined, message |-> Undefined, inviteLink |-> Undefined,
   messageToSend |-> Undefined, participantId |-> Undefined,
   originalAddError |-> Undefined, inviteCodeError |-> Undefined,
   instructions |-> Undefined]

NoResponse == [status |-> 0, body |-> Envelope]
NoAnswer   == [status |-> 0, text |-> <<>>]

\* a call before its request has arrived
IdleCall ==
  [pc |-> "idle", chatId |-> "", participants |-> Undefined,
   studentName |-> Undefined, courseName |-> Undefined,
   participantId |-> "", requests |-> <<>>,
   addResponse |-> NoAnswer, responseBody |-> JNull,
   directAddSuccessful |-> FALSE, addError |-> JNull,
   inviteResponse |-> NoAnswer, inviteLink |-> JNull, inviteCodeError |-> JNull,
   response |-> NoResponse, fault |-> ""]

\* lines 87-92: the validation of the request body
ParticipantsInvalid(participants) ==
  \/ ~Truthy(participants)
  \/ participants.t # "array"
  \/ Len(participants.a) = 0

ValidationResponse ==
  [status |-> 400,
   body |-> [Envelope EXCEPT !.success = JBool(FALSE),
                             !.error = JStr(<<"Participants array is required">>)]]

\* lines 114-122: fetch(addParticipantUrl, {method: "POST", body: {participants}})
AddRequest(chatId, participants) ==
  [op |-> "POST participants/add", chatId |-> chatId, participants |-> participants]

\* lines 198-204: fetch(inviteCodeUrl, {method: "GET"})
InviteRequest(chatId) ==
  [op |-> "GET invite-code", chatId |-> chatId, participants |-> Undefined]

\* lines 82-122: the request arrives; it is answered 400 or the add request is sent
OnRequest(chatId, participants, studentName, courseName) ==
  LET c == [IdleCall EXCEPT !.chatId = chatId, !.participants = participants,
                            !.studentName = studentName, !.courseName = courseName]
  IN  IF ParticipantsInvalid(participants)
      THEN [c EXCEPT !.pc = "done", !.response = ValidationResponse]
      ELSE [c EXCEPT !.pc = "awaitAdd",
                     !.participantId = participants.a[1],
                     !.requests = <<AddRequest(chatId, participants)>>]

\* lines 124-134: the add answer's text, parsed when it is JSON
ParseResponseBody(responseText) ==
  IF responseText # <<>>
  THEN LET parsed == JSONParse(responseText)
       IN  IF parsed.ok THEN parsed.value ELSE JStr(responseText)
  ELSE JNull

Verdict(ok, addError) == [directAddSuccessful |-> ok, addError |-> addError]

\* the entry's message is taken as it is, also when the entry has none
ParticipantVerdictMessageOnly(participantResponse) ==
  IF Get(participantResponse, "code") = JNum(200)
  THEN Verdict(TRUE, JNull)
  ELSE Verdict(FALSE, Get(participantResponse, "message"))

\* lines 150-156: the participant's own entry decides
ParticipantVerdict(participantResponse) ==
  IF Get(participantResponse, "code") = JNum(200)
  THEN Verdict(TRUE, JNull)
  ELSE Verdict(FALSE,
               Or(Get(participantResponse, "message"),
                  JStr(<<"Failed with code ">>
                       \o ToJSString(Or(Get(participantResponse, "code"),
                                        JStr(<<"unknown">>))))))

\* mutant: the top-level code is not looked at, only the success flag
TopLevelVerdictNoCode(responseBody) ==
  IF Get(responseBody, "success") = JBool(TRUE)
  THEN Verdict(TRUE, JNull)
  ELSE IF Truthy(Get(responseBody, "error"))
  THEN Verdict(FALSE, Get(responseBody, "error"))
  ELSE Verdict(FALSE, JStr(<<"No success code in response body">>))

\* lines 157-167: no entry of the participant; the top-level fields decide
TopLevelVerdict(responseBody) ==
  IF Get(responseBody, "code") = JNum(200)
  THEN Verdict(TRUE, JNull)
  ELSE IF Get(responseBody, "success") = JBool(TRUE)
  THEN Verdict(TRUE, JNull)
  ELSE IF Truthy(Get(responseBody, "error"))
  THEN Verdict(FALSE, Get(responseBody, "error"))
  ELSE Verdict(FALSE, JStr(<<"No success code in response body">>))

\* lines 168-173: a body that is a string
StringVerdict(responseBody) ==
  IF Includes(responseBody.s, Two00)
     \/ Includes(ToLowerCase(responseBody.s), ToLowerCase(Success))
  THEN Verdict(TRUE, JNull)
  ELSE Verdict(FALSE, JStr(<<"String response: ">> \o Substring0(responseBody.s, StringErrorLimit)))

\* mutant: a top-level error is looked at before the participant's entry
DirectAddVerdictErrorFirst(participantId, responseBody) ==
  IF Truthy(responseBody) /\ responseBody.t = "object"
  THEN IF Truthy(Get(responseBody, "error"))
       THEN Verdict(FALSE, Get(responseBody, "error"))
       ELSE IF Truthy(Get(responseBody, participantId))
       THEN ParticipantVerdict(Get(responseBody, participantId))
       ELSE TopLevelVerdict(responseBody)
  ELSE IF responseBody.t = "string"
  THEN StringVerdict(responseBody)
  ELSE Verdict(FALSE, JStr(<<"Empty or invalid response body">>))

\* lines 143-176: the verdict on the direct add, read from the body alone
DirectAddVerdict(participantId, responseBody) ==
  IF Truthy(responseBody) /\ responseBody.t = "object"
  THEN IF Truthy(Get(responseBody, participantId))
       THEN ParticipantVerdict(Get(responseBody, participantId))
       ELSE TopLevelVerdict(responseBody)
  ELSE IF responseBody.t = "string"
  THEN StringVerdict(responseBody)
  ELSE Verdict(FALSE, JStr(<<"Empty or invalid response body">>))

\* lines 179-189
DirectAddResponse(responseBody) ==
  [status |-> 200,
   body |-> [Envelope EXCEPT !.success = JBool(TRUE),
                             !.data = responseBody,
                             !.method = JStr(<<"direct_add">>),
                             !.message = JStr(<<"Participant added directly to group">>)]]

\* mutant: an answer that is not OK is judged a failure without reading its body
OnAddResponseTrustStatus(c, status, text) ==
  LET responseBody == ParseResponseBody(text)
      verdict == IF IsOk(status)
                 THEN DirectAddVerdict(c.participantId, responseBody)
                 ELSE Verdict(FALSE, JStr(<<"HTTP ">> \o NumToStr(status)))
      seen == [c EXCEPT !.addResponse = [status |-> status, text |-> text],
                        !.responseBody = responseBody,
                        !.directAddSuccessful = verdict.directAddSuccessful,
                        !.addError = verdict.addError]
  IN  IF verdict.directAddSuccessful
      THEN [seen EXCEPT !.pc = "done", !.response = DirectAddResponse(responseBody)]
      ELSE [seen EXCEPT !.pc = "awaitInvite",
                        !.requests = Append(c.requests, InviteRequest(c.chatId))]

\* mutant: a failed direct add is tried a second time before the fallback
OnAddResponseRetry(c, status, text) ==
  LET responseBody == ParseResponseBody(text)
      verdict == DirectAddVerdict(c.participantId, responseBody)
      seen == [c EXCEPT !.addResponse = [status |-> status, text |-> text],
                        !.responseBody = responseBody,
                        !.directAddSuccessful = verdict.directAddSuccessful,
                        !.addError = verdict.addError]
  IN  IF verdict.directAddSuccessful
      THEN [seen EXCEPT !.pc = "done", !.response = DirectAddResponse(responseBody)]
      ELSE [seen EXCEPT !.pc = "awaitInvite",
                        !.requests = c.requests
                                     \o <<AddRequest(c.chatId, c.participants),
                                          InviteRequest(c.chatId)>>]

\* lines 124-204: the add answer arrives; direct success is answered, or the
\* invite code is requested
OnAddResponse(c, status, text) ==
  LET responseBody == ParseResponseBody(text)
      verdict == DirectAddVerdict(c.participantId, responseBody)
      seen == [c EXCEPT !.addResponse = [status |-> status, text |-> text],
                        !.responseBody = responseBody,
                        !.directAddSuccessful = verdict.directAddSuccessful,
                        !.addError = verdict.addError]
  IN  IF verdict.directAddSuccessful
      THEN [seen EXCEPT !.pc = "done", !.response = DirectAddResponse(responseBody)]
      ELSE [seen EXCEPT !.pc = "awaitInvite",
                        !.requests = Append(c.requests, InviteRequest(c.chatId))]

\* a rejected fetch, or a body that cannot be read, is caught nowhere in POST
OnFetchRejected(c) ==
  [c EXCEPT !.pc = "fault", !.fault = "TypeError: fetch failed"]

\* the order in which line 218-219 looks for the code
CandidateKeys == <<"inviteCode", "code", "data", "link", "invite">>

RECURSIVE FirstTruthy(_, _)
\* jsonData.inviteCode || jsonData.code || ... || jsonData || ""
FirstTruthy(jsonData, keys) ==
  IF keys = <<>> THEN Or(jsonData, JStr(<<>>))
  ELSE Or(Get(jsonData, Head(keys)), FirstTruthy(jsonData, Tail(keys)))

\* lines 213-223: the value taken for the invite code.  Reading a property of
\* null throws inside the try, so null is handled by the catch like a text
\* that is not JSON.
ExtractInviteCode(inviteText) ==
  IF inviteText # <<>>
  THEN LET parsed == JSONParse(inviteText)
       IN  IF parsed.ok /\ parsed.value.t # "null"
           THEN FirstTruthy(parsed.value, CandidateKeys)
           ELSE JStr(Trim(StripQuotes(inviteText)))
  ELSE JStr(<<>>)

LinkPrefix == <<"https://", "chat.whatsapp.com/">>

\* mutant: a link the service already spelled out is not reduced to its code
BuildInviteLinkNoStrip(inviteCode) ==
  LinkPrefix \o Trim(inviteCode)

\* lines 226-229
BuildInviteLink(inviteCode) ==
  LinkPrefix \o Trim(RemoveFirst(RemoveFirst(inviteCode, LinkPrefix), <<"chat.whatsapp.com/">>))

\* lines 212-238: the invite link or the invite error; threw when
\* inviteCode.trim is called on a value that is not a string
InviteOutcome(status, inviteText) ==
  IF IsOk(status)
  THEN LET inviteCode == ExtractInviteCode(inviteText)
       IN  IF ~Truthy(inviteCode)
           THEN [threw |-> FALSE, inviteLink |-> JNull,
                 inviteCodeError |-> JStr(<<"Invite code empty or not found in response">>)]
           ELSE IF inviteCode.t # "string"
           THEN [threw |-> TRUE, inviteLink |-> JNull, inviteCodeError |-> JNull]
           ELSE IF Trim(inviteCode.s) # <<>>
           THEN [threw |-> FALSE, inviteLink |-> JStr(BuildInviteLink(inviteCode.s)),
                 inviteCodeError |-> JNull]
           ELSE [threw |-> FALSE, inviteLink |-> JNull,
                 inviteCodeError |-> JStr(<<"Invite code empty or not found in response">>)]
  ELSE [threw |-> FALSE, inviteLink |-> JNull,
        inviteCodeError |-> JStr(<<"HTTP ">> \o NumToStr(status) \o <<": ">>
                                 \o Substring0(inviteText, InviteErrorLimit))]

\* a message that names the course whenever a course name is supplied
ComposeMessageCourseAlone(studentName, courseName, inviteLink) ==
  IF Truthy(courseName)
  THEN (IF Truthy(studentName) THEN ToJSString(studentName) \o <<"! ">> ELSE <<>>)
       \o <<"Fadlan kusoo biir groupka ", "\"">>
       \o ToJSString(courseName) \o <<"\"", "  ">> \o inviteLink
  ELSE IF Truthy(studentName)
  THEN ToJSString(studentName) \o <<"! Fadlan kusoo biir groupka ">> \o inviteLink
  ELSE <<"Fadlan kusoo biir groupka ">> \o inviteLink

\* lines 244-251
ComposeMessage(studentName, courseName, inviteLink) ==
  IF Truthy(studentName) /\ Truthy(courseName)
  THEN ToJSString(studentName) \o <<"! Fadlan kusoo biir groupka ", "\"">>
       \o ToJSString(courseName) \o <<"\"", "  ">> \o inviteLink
  ELSE IF Truthy(studentName)
  THEN ToJSString(studentName) \o <<"! Fadlan kusoo biir groupka ">> \o inviteLink
  ELSE <<"Fadlan kusoo biir groupka ">> \o inviteLink

\* x || undefined
OrUndefined(x) == IF Truthy(x) THEN x ELSE Undefined

\* lines 253-267
ManualInviteResponse(c, inviteLink) ==
  LET messageToSend == ComposeMessage(c.studentName, c.courseName, inviteLink.s)
  IN  [status |-> 200,
       body |-> [Envelope EXCEPT
                   !.success = JBool(TRUE),
                   !.method = JStr(<<"manual_invite_required">>),
                   !.inviteLink = inviteLink,
                   !.messageToSend = JStr(messageToSend),
                   !.participantId = JStr(<<c.participantId>>),
                   !.originalAddError = OrUndefined(c.addError),
                   !.instructions = JStr(<<"Send this message to ", c.participantId, ": ", "\"">>
                                         \o messageToSend \o <<"\"">>),
                   !.message = JStr(<<"Participant couldn't be added directly. Invite link was generated. Please send it manually to the student using the provided details.">>)]]

\* mutant: the invite-fetch error is left out of the response
CompleteFailureResponseOneError(c, inviteCodeError) ==
  [status |-> 500,
   body |-> [Envelope EXCEPT
               !.success = JBool(FALSE),
               !.method = JStr(<<"complete_failure">>),
               !.inviteLink = JNull,
               !.participantId = JStr(<<c.participantId>>),
               !.originalAddError = OrUndefined(c.addError),
               !.message = JStr(<<"Failed to add participant directly and could not get invite link. Manual intervention required.">>)]]

\* lines 270-281
CompleteFailureResponse(c, inviteCodeError) ==
  [status |-> 500,
   body |-> [Envelope EXCEPT
               !.success = JBool(FALSE),
               !.method = JStr(<<"complete_failure">>),
               !.inviteLink = JNull,
               !.participantId = JStr(<<c.participantId>>),
               !.originalAddError = OrUndefined(c.addError),
               !.inviteCodeError = OrUndefined(inviteCodeError),
               !.message = JStr(<<"Failed to add participant directly and could not get invite link. Manual intervention required.">>)]]

\* lines 206-282: the invite answer arrives; the fallback or the complete
\* failure is answered, unless line 225 throws
OnInviteResponse(c, status, text) ==
  LET out == InviteOutcome(status, text)
      seen == [c EXCEPT !.inviteResponse = [status |-> status, text |-> text],
                        !.inviteLink = out.inviteLink,
                        !.inviteCodeError = out.inviteCodeError]
  IN  IF out.threw
      THEN [seen EXCEPT !.pc = "fault",
                        !.fault = "TypeError: inviteCode.trim is not a function"]
      ELSE IF Truthy(out.inviteLink)
      THEN [seen EXCEPT !.pc = "done", !.response = ManualInviteResponse(c, out.inviteLink)]
      ELSE [seen EXCEPT !.pc = "done",
                        !.response = CompleteFailureResponse(c, out.inviteCodeError)]

(***************************************************************************)
(* The course and student endpoints                                        *)
(*   /api/courses, /api/courses/[id]      (sessions variant)               *)
(*   /api/students, /api/students/[id]                                     *)
(* and the two mongoose schemas behind them.  The database is reachable:   *)
(* connectDB() resolves in every call.                                     *)
(*                                                                         *)
(* A stored document is a record of its schema paths, its _id and its two  *)
(* timestamps.  Identifiers are naturals in the order of their minting; a  *)
(* request may also address the path segment NotAnObjectId, which mongoose *)
(* cannot cast to an ObjectId.  Request sessions are JavaScript values;    *)
(* stored sessions are sequences of records of two strings.                *)
(***************************************************************************)
\* a path segment or courseId value that is no ObjectId, such as "abc"
NotAnObjectId == 0

\* { startTime, endTime } as a request body carries it
Session(startTime, endTime) == [startTime |-> startTime, endTime |-> endTime]

Morning == Session(JStr(<<"8", ":", "0", "0">>), JStr(<<"9", ":", "0", "0">>))
Evening == Session(JStr(<<"1", "8", ":", "0", "0">>), JStr(<<"1", "9", ":", "0", "0">>))
\* a session whose endTime is missing
OpenEnded == Session(JStr(<<"8", ":", "0", "0">>), Undefined)

\* the morning session typed with a space before its start and behind its end
Padded ==
  Session(JStr(<<" ", "8", ":", "0", "0">>), JStr(<<"9", ":", "0", "0", " ">>))

\* a session whose startTime is one space
Blank == Session(JStr(<<" ">>), JStr(<<"9", ":", "0", "0">>))

\* what a request body can hold under sessions or selectedSessions
SessionsInputs ==
  {Undefined, JStr(<<"8", ":", "0", "0">>), JArr(<<>>), JArr(<<Morning>>),
   JArr(<<Morning, Evening>>), JArr(<<Morning, OpenEnded>>)}

\* what a request body can hold under sessions, whose strings the schema trims
CourseSessionsInputs == SessionsInputs \cup {JArr(<<Padded>>), JArr(<<Blank>>)}

\* what a request body can hold under courseName
CourseNameInputs ==
  {Undefined, JStr(<<>>), JStr(<<" ">>), JStr(<<"Networking">>),
   JStr(<<" ", "Security", " ">>)}

\* a JSON error message of one fixed text
Message(text) == JStr(<<text>>)

\* NextResponse.json({ success: false, error }, { status })
ErrorResponse(status, text) ==
  [status |-> status,
   body |-> [Envelope EXCEPT !.success = JBool(FALSE), !.error = Message(text)]]

\* a document, and a list of documents, inside a response
JDoc(d) == [t |-> "document", d |-> d]

\* NextResponse.json({ success: true, data }, { status })
DataResponse(status, data) ==
  [status |-> status,
   body |-> [Envelope EXCEPT !.success = JBool(TRUE), !.data = data]]

\* NextResponse.json({ success: true, message }, { status: 200 })
MessageResponse(text) ==
  [status |-> 200,
   body |-> [Envelope EXCEPT !.success = JBool(TRUE), !.message = Message(text)]]

\* the outcome of a handler: the collection it leaves and its response
Outcome(collection, response) == [collection |-> collection, response |-> response]

(***************************************************************************)
(* Queries shared by both collections.                                     *)
(***************************************************************************)
\* the sequences that hold every element of set S exactly once
Orderings(S) ==
  {f \in [1..Cardinality(S) -> S] : \A i, j \in 1..Cardinality(S) : f[i] = f[j] => i = j}

\* .sort({ updatedAt: -1 })
SortedByUpdatedAtDesc(collection) ==
  {f \in Orderings(collection) :
     \A i, j \in 1..Len(f) : i < j => f[i].updatedAt >= f[j].updatedAt}

\* .sort({ createdAt: -1 }): every document, a later createdAt before an earlier
\* one; documents of equal createdAt come in an order the database chooses
SortedByCreatedAtDesc(collection) ==
  {f \in Orderings(collection) :
     \A i, j \in 1..Len(f) : i < j => f[i].createdAt >= f[j].createdAt}

\* findById: the documents of the collection with this _id (none or one)
FindById(collection, id) == {d \in collection : d._id = id}

(***************************************************************************)
(* CourseSchema (sessions variant).                                        *)
(***************************************************************************)
\* a cast that trims the start time only
CastCourseSessionStartOnly(session) ==
  [startTime |-> Trim(session.startTime.s), endTime |-> session.endTime.s]

\* a request session cast to the sub-schema: both strings trimmed
CastCourseSession(session) ==
  [startTime |-> Trim(session.startTime.s), endTime |-> Trim(session.endTime.s)]

CastCourseSessions(sessions) ==
  [i \in 1..Len(sessions.a) |-> CastCourseSession(sessions.a[i])]

\* the validators of the path courseName: required, after trim
CourseNameInvalid(courseName) == courseName = <<>>

\* the validators of the path sessions: required times, at least one session
CourseSessionsInvalid(sessions) ==
  \/ Len(sessions) = 0
  \/ \E i \in 1..Len(sessions) :
       sessions[i].startTime = <<>> \/ sessions[i].endTime = <<>>

(***************************************************************************)
(* /api/courses                                                            *)
(***************************************************************************)
\* every session of a sessions array has a truthy startTime and endTime
SessionsComplete(sessions) ==
  \A i \in 1..Len(sessions.a) :
    Truthy(sessions.a[i].startTime) /\ Truthy(sessions.a[i].endTime)

\* the check without its third operand: an empty array passes
SessionsMissingNoLength(sessions) ==
  \/ ~Truthy(sessions)
  \/ sessions.t # "array"

\* !sessions || !Array.isArray(sessions) || sessions.length === 0
SessionsMissing(sessions) ==
  \/ ~Truthy(sessions)
  \/ sessions.t # "array"
  \/ Len(sessions.a) = 0

\* GET /api/courses: the responses it can give
CoursesGET(courses) ==
  {DataResponse(200, JArr(list)) : list \in SortedByCreatedAtDesc(courses)}

\* POST /api/courses
CoursesPOST(courses, body, id, time) ==
  IF ~Truthy(body.courseName)
  THEN Outcome(courses, ErrorResponse(400, "Course name is required"))
  ELSE IF SessionsMissing(body.sessions)
  THEN Outcome(courses, ErrorResponse(400, "At least one session is required"))
  ELSE IF ~SessionsComplete(body.sessions)
  THEN Outcome(courses, ErrorResponse(400, "Each session must have startTime and endTime"))
  ELSE LET course == [_id |-> id,
                      courseName |-> Trim(body.courseName.s),
                      sessions |-> CastCourseSessions(body.sessions),
                      createdAt |-> time, updatedAt |-> time]
       IN  IF CourseNameInvalid(course.courseName) \/ CourseSessionsInvalid(course.sessions)
           THEN Outcome(courses, ErrorResponse(500, "Course validation failed"))
           ELSE Outcome(courses \cup {course}, DataResponse(201, JDoc(course)))

(***************************************************************************)
(* /api/courses/[id]                                                       *)
(***************************************************************************)
\* if (courseName) updateData.courseName = courseName; likewise sessions.
\* A key that is not set is undefined.
CourseUpdateData(body) ==
  [courseName |-> OrUndefined(body.courseName), sessions |-> OrUndefined(body.sessions)]

\* the update cast to the schema: a string trimmed, the sessions cast
CastCourseUpdate(updateData) ==
  [courseName |-> IF updateData.courseName = Undefined THEN Undefined
                  ELSE JStr(Trim(updateData.courseName.s)),
   sessions |-> IF updateData.sessions = Undefined THEN Undefined
                ELSE JArr(CastCourseSessions(updateData.sessions))]

\* an update without runValidators: no validator runs
CourseUpdateNotValidated(update) == FALSE

\* runValidators: the validators of the paths the update sets
CourseUpdateInvalid(update) ==
  \/ update.courseName # Undefined /\ CourseNameInvalid(update.courseName.s)
  \/ update.sessions # Undefined /\ CourseSessionsInvalid(update.sessions.a)

\* the document replaced by the update: a path the update leaves out is emptied
UpdatedCourseReplaced(course, update, time) ==
  [course EXCEPT
     !.courseName = IF update.courseName = Undefined THEN <<>> ELSE update.courseName.s,
     !.sessions = IF update.sessions = Undefined THEN <<>> ELSE update.sessions.a,
     !.updatedAt = time]

\* the document after $set of the paths of the update, stamped by timestamps
UpdatedCourse(course, update, time) ==
  [course EXCEPT
     !.courseName = IF update.courseName = Undefined THEN @ ELSE update.courseName.s,
     !.sessions = IF update.sessions = Undefined THEN @ ELSE update.sessions.a,
     !.updatedAt = time]

\* Course.findByIdAndUpdate(id, updateData, { new: true, runValidators: true })
\* and the response built from its result
CourseFindByIdAndUpdate(courses, id, updateData, time) ==
  LET update == CastCourseUpdate(updateData)
      found  == FindById(courses, id)
  IN  IF id = NotAnObjectId
      THEN Outcome(courses, ErrorResponse(500, "Cast to ObjectId failed"))
      ELSE IF CourseUpdateInvalid(update)
      THEN Outcome(courses, ErrorResponse(500, "Validation failed"))
      ELSE IF found = {}
      THEN Outcome(courses, ErrorResponse(404, "Course not found"))
      ELSE LET course == CHOOSE c \in found : TRUE
               after  == UpdatedCourse(course, update, time)
           IN  Outcome((courses \ {course}) \cup {after}, DataResponse(200, JDoc(after)))

\* PUT /api/courses/[id]
CoursePUT(courses, id, body, time) ==
  IF ~Truthy(body.courseName) /\ ~Truthy(body.sessions)
  THEN Outcome(courses,
               ErrorResponse(400, "At least one field (courseName or sessions) is required"))
  ELSE IF Truthy(body.sessions) /\ (body.sessions.t # "array" \/ Len(body.sessions.a) = 0)
  THEN Outcome(courses, ErrorResponse(400, "At least one session is required"))
  ELSE IF Truthy(body.sessions) /\ ~SessionsComplete(body.sessions)
  THEN Outcome(courses, ErrorResponse(400, "Each session must have startTime and endTime"))
  ELSE CourseFindByIdAndUpdate(courses, id, CourseUpdateData(body), time)

\* DELETE /api/courses/[id]
CourseDELETE(courses, id) ==
  IF id = NotAnObjectId
  THEN Outcome(courses, ErrorResponse(500, "Cast to ObjectId failed"))
  ELSE IF FindById(courses, id) = {}
  THEN Outcome(courses, ErrorResponse(404, "Course not found"))
  ELSE Outcome(courses \ FindById(courses, id),
               MessageResponse("Course deleted successfully"))

(***************************************************************************)
(* StudentSchema.                                                          *)
(***************************************************************************)
\* a string naming ObjectId n; JId(NotAnObjectId) is a string naming none
JId(n) == [t |-> "id", n |-> n]

\* the pattern without its dot, /^\S+@\S+$/
emailRegexNoDot(s) ==
  /\ \A i \in 1..Len(s) : ~IsSpace(s[i])
  /\ \E i \in 2..(Len(s) - 1) : s[i] = "@"

\* /^\S+@\S+\.\S+$/.test(s): no white space anywhere, an "@" behind at least
\* one character, and behind it a "." that has at least one character on
\* either side
emailRegex(s) ==
  /\ \A i \in 1..Len(s) : ~IsSpace(s[i])
  /\ \E i \in 2..Len(s), j \in 2..(Len(s) - 1) :
       s[i] = "@" /\ s[j] = "." /\ j > i + 1

\* the paths of StudentSchema that carry a unique index: the schema declares
\* none (the path email has type, required, trim, lowercase and match)
StudentUniquePaths == {}

\* a request session cast to the sub-schema of selectedSessions
CastSelectedSessions(sessions) ==
  [i \in 1..Len(sessions.a) |->
     [startTime |-> sessions.a[i].startTime.s, endTime |-> sessions.a[i].endTime.s]]

\* the setters of the path email: trim, then lowercase
CastEmail(s) == ToLowerCase(Trim(s))

\* the validators of a required, trimmed string path
RequiredInvalid(s) == s = <<>>

\* the validators of the path email: required, match
EmailInvalid(email) == RequiredInvalid(email) \/ ~emailRegex(email)

\* the validators of the path selectedSessions
SelectedSessionsInvalid(sessions) ==
  \/ Len(sessions) = 0
  \/ \E i \in 1..Len(sessions) :
       sessions[i].startTime = <<>> \/ sessions[i].endTime = <<>>

\* the insert or update would give two documents the same value under a
\* uniquely indexed path (MongoDB error E11000)
DuplicateKey(students, student) ==
  \E other \in students, path \in StudentUniquePaths :
    other._id # student._id /\ other[path] = student[path]

\* a populate that also drops the selected sessions the referenced course no
\* longer offers
PopulateOffered(student, courses) ==
  LET found == FindById(courses, student.courseId)
  IN  IF found = {} THEN [student EXCEPT !.courseId = JNull]
      ELSE LET course == CHOOSE c \in found : TRUE
               Offered(session) == \E i \in 1..Len(course.sessions) : course.sessions[i] = session
           IN  [student EXCEPT
                  !.courseId = JDoc([_id |-> course._id, courseName |-> course.courseName,
                                     sessions |-> course.sessions]),
                  !.selectedSessions = SelectSeq(@, Offered)]

\* .populate("courseId", "courseName sessions"): the referenced course, or
\* null when no course has this _id
Populate(student, courses) ==
  LET found == FindById(courses, student.courseId)
  IN  [student EXCEPT
         !.courseId =
           IF found = {} THEN JNull
           ELSE LET course == CHOOSE c \in found : TRUE
                IN  JDoc([_id |-> course._id, courseName |-> course.courseName,
                          sessions |-> course.sessions])]

(***************************************************************************)
(* /api/students                                                           *)
(***************************************************************************)
\* a list that leaves out the students whose course is not stored
StudentsGETEnrolled(students, courses) ==
  {DataResponse(200, JArr([i \in 1..Len(list) |-> Populate(list[i], courses)])) :
     list \in SortedByCreatedAtDesc({s \in students : FindById(courses, s.courseId) # {}})}

\* GET /api/students: the responses it can give
StudentsGET(students, courses) ==
  {DataResponse(200, JArr([i \in 1..Len(list) |-> Populate(list[i], courses)])) :
     list \in SortedByCreatedAtDesc(students)}

\* !name || !email || !university || !phoneNumber || !courseId
StudentFieldMissing(body) ==
  \/ ~Truthy(body.name)
  \/ ~Truthy(body.email)
  \/ ~Truthy(body.university)
  \/ ~Truthy(body.phoneNumber)
  \/ ~Truthy(body.courseId)

\* Student.create({ ... }) and the response built from its result
StudentCreate(students, body, id, time) ==
  IF body.courseId.n = NotAnObjectId
  THEN Outcome(students, ErrorResponse(500, "Student validation failed"))
  ELSE LET student == [_id |-> id,
                       name |-> Trim(body.name.s),
                       email |-> CastEmail(body.email.s),
                       university |-> Trim(body.university.s),
                       phoneNumber |-> Trim(body.phoneNumber.s),
                       courseId |-> body.courseId.n,
                       selectedSessions |-> CastSelectedSessions(body.selectedSessions),
                       createdAt |-> time, updatedAt |-> time]
       IN  IF \/ RequiredInvalid(student.name)
              \/ EmailInvalid(student.email)
              \/ RequiredInvalid(student.university)
              \/ RequiredInvalid(student.phoneNumber)
              \/ SelectedSessionsInvalid(student.selectedSessions)
           THEN Outcome(students, ErrorResponse(500, "Student validation failed"))
           ELSE IF DuplicateKey(students, student)
           THEN Outcome(students,
                        ErrorResponse(400, "A student with this email already exists"))
           ELSE Outcome(students \cup {student}, DataResponse(201, JDoc(student)))

\* the handler with the email tested before the session list
StudentsPOSTEmailFirst(students, body, id, time) ==
  IF StudentFieldMissing(body)
  THEN Outcome(students, ErrorResponse(400, "All fields are required"))
  ELSE IF ~emailRegex(body.email.s)
  THEN Outcome(students, ErrorResponse(400, "Please enter a valid email address"))
  ELSE IF SessionsMissing(body.selectedSessions)
  THEN Outcome(students, ErrorResponse(400, "At least one session must be selected"))
  ELSE IF ~SessionsComplete(body.selectedSessions)
  THEN Outcome(students, ErrorResponse(400, "Each session must have startTime and endTime"))
  ELSE StudentCreate(students, body, id, time)

\* POST /api/students
StudentsPOST(students, body, id, time) ==
  IF StudentFieldMissing(body)
  THEN Outcome(students, ErrorResponse(400, "All fields are required"))
  ELSE IF SessionsMissing(body.selectedSessions)
  THEN Outcome(students, ErrorResponse(400, "At least one session must be selected"))
  ELSE IF ~emailRegex(body.email.s)
  THEN Outcome(students, ErrorResponse(400, "Please enter a valid email address"))
  ELSE IF ~SessionsComplete(body.selectedSessions)
  THEN Outcome(students, ErrorResponse(400, "Each session must have startTime and endTime"))
  ELSE StudentCreate(students, body, id, time)

(***************************************************************************)
(* /api/students/[id]                                                      *)
(***************************************************************************)
StudentPaths ==
  {"name", "email", "university", "phoneNumber", "courseId", "selectedSessions"}

\* if (name) updateData.name = name; and so on for the six fields.
\* A key that is not set is undefined.
StudentUpdateData(body) == [path \in StudentPaths |-> OrUndefined(body[path])]

\* the update cast to the schema
CastStudentUpdate(updateData) ==
  [path \in StudentPaths |->
     IF updateData[path] = Undefined THEN Undefined
     ELSE CASE path = "email" -> JStr(CastEmail(updateData[path].s))
            [] path = "courseId" -> updateData[path]
            [] path = "selectedSessions" -> JArr(CastSelectedSessions(updateData[path]))
            [] OTHER -> JStr(Trim(updateData[path].s))]

\* runValidators: the validators of the paths the update sets
StudentUpdateInvalid(update) ==
  \/ update.name # Undefined /\ RequiredInvalid(update.name.s)
  \/ update.email # Undefined /\ EmailInvalid(update.email.s)
  \/ update.university # Undefined /\ RequiredInvalid(update.university.s)
  \/ update.phoneNumber # Undefined /\ RequiredInvalid(update.phoneNumber.s)
  \/ update.courseId # Undefined /\ update.courseId.n = NotAnObjectId
  \/ update.selectedSessions # Undefined /\ SelectedSessionsInvalid(update.selectedSessions.a)

\* the value a path of the update holds, as the document stores it
Stored(path, value) ==
  CASE path = "courseId" -> value.n
    [] path = "selectedSessions" -> value.a
    [] OTHER -> value.s

\* the document after $set of the paths of the update.  timestamps stamps
\* updatedAt; whether an update that sets no path is stamped (stamped) depends
\* on the mongoose version
UpdatedStudent(student, update, time, stamped) ==
  [field \in DOMAIN student |->
     IF field \in StudentPaths /\ update[field] # Undefined
     THEN Stored(field, update[field])
     ELSE IF field = "updatedAt" /\ (stamped \/ \E path \in StudentPaths : update[path] # Undefined)
     THEN time
     ELSE student[field]]

\* Student.findByIdAndUpdate(id, updateData, { new: true, runValidators: true })
\*   .populate("courseId", "courseName sessions") and the response built from
\* its result
StudentFindByIdAndUpdate(students, courses, id, updateData, time, stamped) ==
  LET update == CastStudentUpdate(updateData)
      found  == FindById(students, id)
  IN  IF id = NotAnObjectId
      THEN Outcome(students, ErrorResponse(500, "Cast to ObjectId failed"))
      ELSE IF StudentUpdateInvalid(update)
      THEN Outcome(students, ErrorResponse(500, "Validation failed"))
      ELSE IF found = {}
      THEN Outcome(students, ErrorResponse(404, "Student not found"))
      ELSE LET student == CHOOSE s \in found : TRUE
               after   == UpdatedStudent(student, update, time, stamped)
           IN  IF DuplicateKey(students, after)
               THEN Outcome(students,
                            ErrorResponse(400, "A student with this email already exists"))
               ELSE Outcome((students \ {student}) \cup {after},
                            DataResponse(200, JDoc(Populate(after, courses))))

\* PUT /api/students/[id]
StudentPUT(students, courses, id, body, time, stamped) ==
  IF Truthy(body.email) /\ ~emailRegex(body.email.s)
  THEN Outcome(students, ErrorResponse(400, "Please enter a valid email address"))
  ELSE IF /\ Truthy(body.selectedSessions)
          /\ (body.selectedSessions.t # "array" \/ Len(body.selectedSessions.a) = 0)
  THEN Outcome(students, ErrorResponse(400, "At least one session must be selected"))
  ELSE IF Truthy(body.selectedSessions) /\ ~SessionsComplete(body.selectedSessions)
  THEN Outcome(students, ErrorResponse(400, "Each session must have startTime and endTime"))
  ELSE StudentFindByIdAndUpdate(students, courses, id, StudentUpdateData(body), time, stamped)

\* DELETE /api/students/[id]
StudentDELETE(students, id) ==
  IF id = NotAnObjectId
  THEN Outcome(students, ErrorResponse(500, "Cast to ObjectId failed"))
  ELSE IF FindById(students, id) = {}
  THEN Outcome(students, ErrorResponse(404, "Student not found"))
  ELSE Outcome(students \ FindById(students, id),
               MessageResponse("Student deleted successfully"))

(***************************************************************************)
(* The two forms that choose sessions: the registration page               *)
(* (JoinGroupCoursePage) and the edit dialog of a student (StudentForm).   *)
(* A form holds the courses it fetched, the values of its fields courseId  *)
(* and selectedSessions, and the local state selectedSessions that mirrors *)
(* the field.  The other fields are filled in validly.  An effect runs     *)
(* right after the render that follows the handler that changed its        *)
(* dependency, before the next event is handled.  A form also holds the    *)
(* name of the handler that ran last (handled) and the data it posted      *)
(* last.                                                                   *)
(***************************************************************************)
\* the field courseId before a course is chosen, ""
Unselected == 0

\* result.data of GET /api/courses as a form can receive it: no course (also
\* when the fetch fails), or two courses, each with one of four session lists
FetchedCourses ==
  LET lists == {CastCourseSessions(JArr(a)) :
                  a \in {<<Morning>>, <<Evening>>, <<Morning, Evening>>, <<Morning, Morning>>}}
  IN  {<<>>} \cup
      {<<[_id |-> 2, courseName |-> <<"Security">>, sessions |-> second],
         [_id |-> 1, courseName |-> <<"Networking">>, sessions |-> first]>> :
         first \in lists, second \in lists}

\* courses.find((c) => c._id === selectedCourseId): the courses found
SelectedCourse(fetched, selectedCourseId) ==
  {fetched[i] : i \in {j \in 1..Len(fetched) : fetched[j]._id = selectedCourseId}}

\* a toggle that appends the session without looking for it
ToggleSessionAppend(session, currentValue) == Append(currentValue, session)

\* toggleSession: the new value of the field
ToggleSession(session, currentValue) ==
  LET Same(s) == s.startTime = session.startTime /\ s.endTime = session.endTime
      Other(s) == ~Same(s)
      isSelected == \E i \in 1..Len(currentValue) : Same(currentValue[i])
  IN  IF isSelected THEN SelectSeq(currentValue, Other) ELSE Append(currentValue, session)

\* the values of the two fields
Values(courseId, sessions) == [courseId |-> courseId, selectedSessions |-> sessions]

\* the registration page before it is mounted
IdlePage ==
  [pc |-> "unmounted", handled |-> "none", courses |-> <<>>,
   values |-> Values(Unselected, <<>>), selectedSessions |-> <<>>,
   posted |-> Values(Unselected, <<>>)]

\* the page's effect on [selectedCourseId, form], run after a render in which
\* selectedCourseId differs from that of the render before
PageCourseEffect(previous, values) ==
  IF values.courseId # previous /\ values.courseId # Unselected
  THEN [values EXCEPT !.selectedSessions = <<>>]
  ELSE values

\* the render of the field selectedSessions: the local state follows the field
Rendered(form) == [form EXCEPT !.selectedSessions = form.values.selectedSessions]

\* the edit dialog while it is closed
ClosedDialog ==
  [pc |-> "closed", handled |-> "none", courses |-> <<>>,
   defaultValues |-> Values(Unselected, <<>>), values |-> Values(Unselected, <<>>),
   selectedSessions |-> <<>>, submitted |-> Values(Unselected, <<>>)]

\* the dialog's effect on [selectedCourseId, defaultValues, form]
DialogCourseEffect(previous, defaultValues, values) ==
  IF /\ values.courseId # previous
     /\ values.courseId # Unselected
     /\ defaultValues.courseId # values.courseId
  THEN [values EXCEPT !.selectedSessions = <<>>]
  ELSE values

(***************************************************************************)
(* The state: one call of the invitation handler, from its request to its  *)
(* response, and the two collections with the last request served on them. *)
(***************************************************************************)
\* call: the call of the handler under study.
\* twin: a second, independent call of the handler, used to compare two calls;
\*       it stays idle unless the specification runs two calls.
\* courses, students: the documents of the two collections.
\* minted: how many identifiers each collection has handed out.
\* now: the instant of the last write; every write happens at a later instant
\*      than the writes before it.
\* exchange: the last request served by a course or student endpoint, with
\*      its response.
\* page: the registration page.
\* dialog: the edit dialog of a student.
VARIABLES call, twin, courses, students, minted, now, exchange, page, dialog

storeVars == <<courses, students, minted, now, exchange>>

vars == <<call, twin, storeVars, page, dialog>>

\* what a request body can hold under participants
ParticipantLists ==
  UNION {[1..n -> ParticipantIds] : n \in 0..MaxParticipants}

ParticipantsInputs ==
  {Undefined, JStr(<<"1234@c.us">>)} \cup {JArr(a) : a \in ParticipantLists}

StudentNames == {Undefined, JStr(<<>>), JStr(<<"Amina">>)}
CourseNames  == {Undefined, JStr(<<"Networking">>)}

\* no request has been served yet
NoExchange ==
  [op |-> "none", id |-> NotAnObjectId, body |-> Undefined, response |-> NoResponse]

Init ==
  /\ call = IdleCall /\ twin = IdleCall
  /\ courses = {} /\ students = {}
  /\ minted = [Course |-> 0, Student |-> 0]
  /\ now = 0
  /\ exchange = NoExchange
  /\ page = IdlePage /\ dialog = ClosedDialog

\* a client posts a request
Request ==
  /\ call.pc = "idle"
  /\ \E chatId \in ChatIds, participants \in ParticipantsInputs,
        studentName \in StudentNames, courseName \in CourseNames :
       call' = OnRequest(chatId, participants, studentName, courseName)
  /\ UNCHANGED <<twin, storeVars, page, dialog>>

\* the external service answers the add request
AddResponds ==
  /\ call.pc = "awaitAdd"
  /\ \E status \in AddStatuses, text \in AddTexts :
       call' = OnAddResponse(call, status, text)
  /\ UNCHANGED <<twin, storeVars, page, dialog>>

\* the add request fails at transport level
AddRejected ==
  /\ call.pc = "awaitAdd"
  /\ call' = OnFetchRejected(call)
  /\ UNCHANGED <<twin, storeVars, page, dialog>>

\* the external service answers the invite-code request
InviteResponds ==
  /\ call.pc = "awaitInvite"
  /\ \E status \in InviteStatuses, text \in InviteTexts :
       call' = OnInviteResponse(call, status, text)
  /\ UNCHANGED <<twin, storeVars, page, dialog>>

\* the invite-code request fails at transport level
InviteRejected ==
  /\ call.pc = "awaitInvite"
  /\ call' = OnFetchRejected(call)
  /\ UNCHANGED <<twin, storeVars, page, dialog>>

Next ==
  \/ Request
  \/ AddResponds
  \/ AddRejected
  \/ InviteResponds
  \/ InviteRejected

\* one call of the handler against every answer of the external service
Spec == Init /\ [][Next]_vars

(***************************************************************************)
(* Two calls side by side.  Both receive the same request, and the         *)
(* external service answers both with the same bodies; the HTTP status of  *)
(* the add answer is chosen for each call on its own.                      *)
(***************************************************************************)
\* the invite-code answers of the two-call runs: a code, no code, an empty
\* body, a refusal
TwinInviteAnswers ==
  { [status |-> 200, text |-> Stringify(JObj(<<Prop("inviteCode", JStr(<<"ABC123">>))>>))],
    [status |-> 200, text |-> Stringify(JObj(<<>>))],
    [status |-> 200, text |-> <<>>],
    [status |-> 404, text |-> <<"N", "o", "t", " ", "F", "o", "u", "n", "d">>] }

TwinRequest ==
  /\ call.pc = "idle" /\ twin.pc = "idle"
  /\ \E chatId \in ChatIds, participants \in ParticipantsInputs,
        studentName \in StudentNames, courseName \in CourseNames :
       /\ call' = OnRequest(chatId, participants, studentName, courseName)
       /\ twin' = OnRequest(chatId, participants, studentName, courseName)
  /\ UNCHANGED <<storeVars, page, dialog>>

TwinAddResponds ==
  /\ call.pc = "awaitAdd" /\ twin.pc = "awaitAdd"
  /\ \E text \in AddTexts, status \in AddStatuses, twinStatus \in AddStatuses :
       /\ call' = OnAddResponse(call, status, text)
       /\ twin' = OnAddResponse(twin, twinStatus, text)
  /\ UNCHANGED <<storeVars, page, dialog>>

\* each call that waits for the invite code receives the same answer
TwinInviteResponds ==
  /\ "awaitInvite" \in {call.pc, twin.pc}
  /\ \E answer \in TwinInviteAnswers :
       /\ call' = IF call.pc = "awaitInvite"
                  THEN OnInviteResponse(call, answer.status, answer.text) ELSE call
       /\ twin' = IF twin.pc = "awaitInvite"
                  THEN OnInviteResponse(twin, answer.status, answer.text) ELSE twin
  /\ UNCHANGED <<storeVars, page, dialog>>

NextTwin ==
  \/ TwinRequest
  \/ TwinAddResponds
  \/ TwinInviteResponds

SpecTwin == Init /\ [][NextTwin]_vars

(***************************************************************************)
(* Vocabulary of the properties.  The answers of the external service are  *)
(* described here from their text, not through the handler's own parsing.  *)
(***************************************************************************)
Ended(c) == c.pc \in {"done", "fault"}

\* the request carried a non-empty participants array
ValidRequest(c) ==
  c.pc # "idle" /\ c.participants.t = "array" /\ Len(c.participants.a) > 0

AddAnswered(c)    == c.addResponse # NoAnswer
InviteAnswered(c) == c.inviteResponse # NoAnswer

\* the JSON documents a text serializes
DocsOf(text) == {d.value : d \in {e \in JsonDocuments : e.text = text}}

\* the keyed structures (objects) a text serializes
KeyedDocsOf(text) == {v \in DocsOf(text) : v.t = "object"}

\* the values object v holds under key
Entries(v, key) == {v.m[i].v : i \in {j \in 1..Len(v.m) : v.m[j].k = key}}

MethodOf(c) == c.response.body.method

IsDirectSuccess(c) ==
  c.pc = "done" /\ MethodOf(c) = JStr(<<"direct_add">>)

IsFallback(c) ==
  /\ c.pc = "done"
  /\ MethodOf(c) = JStr(<<"manual_invite_required">>)
  /\ c.response.body.inviteLink.t = "string"

IsCompleteFailure(c) ==
  c.pc = "done" /\ MethodOf(c) = JStr(<<"complete_failure">>)

(***************************************************************************)
(* C1.  Every call with a non-empty participants array ends in exactly one *)
(* of the three outcomes direct success, fallback available, complete      *)
(* failure: never in two of them, never in none.                           *)
(***************************************************************************)
C1_ExactlyOneOutcome ==
  (Ended(call) /\ ValidRequest(call)) =>
    Cardinality({o \in {"direct", "fallback", "failure"} :
                   \/ o = "direct"   /\ IsDirectSuccess(call)
                   \/ o = "fallback" /\ IsFallback(call)
                   \/ o = "failure"  /\ IsCompleteFailure(call)}) = 1

(***************************************************************************)
(* C2.  Within one call the requests to the external service are exactly   *)
(* one add-participant request, then at most one invite-code request; the  *)
(* invite-code request is sent only after the direct add was judged a      *)
(* failure, and no request is repeated: the log of requests only grows, by *)
(* one request at a time, and is never longer than these two.              *)
(***************************************************************************)
C2_RequestLog ==
  /\ Len(call.requests) <= 2
  /\ ValidRequest(call) =>
       /\ Len(call.requests) >= 1
       /\ call.requests[1] = [op |-> "POST participants/add", chatId |-> call.chatId,
                              participants |-> call.participants]
  /\ (call.pc # "idle" /\ ~ValidRequest(call)) => call.requests = <<>>
  /\ Len(call.requests) = 2 =>
       /\ call.requests[2].op = "GET invite-code"
       /\ AddAnswered(call)
       /\ ~call.directAddSuccessful
  /\ (AddAnswered(call) /\ call.directAddSuccessful) => Len(call.requests) = 1

C2_RequestOrder ==
  /\ []C2_RequestLog
  /\ [][\/ call.requests' = call.requests
        \/ /\ Len(call.requests') = Len(call.requests) + 1
           /\ SubSeq(call.requests', 1, Len(call.requests)) = call.requests]_vars

\* a call that sent both requests and has answered
C2_Witness ==
  call.pc = "done" /\ Len(call.requests) = 2

(***************************************************************************)
(* C3.  Every call ends with a response in the uniform envelope, also when *)
(* a request to the external service fails at transport level or the       *)
(* service answers with an unexpected body: the handler never ends in an   *)
(* unhandled fault.                                                        *)
(***************************************************************************)
C3_AlwaysEnvelope ==
  Ended(call) =>
    /\ call.pc = "done"
    /\ call.response.status # 0
    /\ call.response.body.success.t = "boolean"

(***************************************************************************)
(* C4.  If the add answer's body is a keyed structure with an entry keyed  *)
(* by the participant whose nested code is 200, the outcome is direct      *)
(* success (status 200, success true, the provider's payload as data) and  *)
(* no invite-code request is made.                                         *)
(***************************************************************************)
HasEntryWithCode200(v, participantId) ==
  \E e \in Entries(v, participantId) :
    e.t = "object" /\ JNum(200) \in Entries(e, "code")

C4_Case ==
  /\ AddAnswered(call)
  /\ \E v \in KeyedDocsOf(call.addResponse.text) : HasEntryWithCode200(v, call.participantId)

C4_ParticipantCode200 ==
  C4_Case =>
    /\ IsDirectSuccess(call)
    /\ call.response.status = 200
    /\ call.response.body.success = JBool(TRUE)
    /\ call.response.body.data \in KeyedDocsOf(call.addResponse.text)
    /\ Len(call.requests) = 1
    /\ call.requests[1].op = "POST participants/add"

\* the entry has code 200 while the body also carries a top-level error
C4_Witness ==
  /\ C4_Case
  /\ call.pc = "done"
  /\ \E v \in KeyedDocsOf(call.addResponse.text) : Entries(v, "error") # {}

(***************************************************************************)
(* C5.  As claimed: whenever rule 1 does not yield success (the body has   *)
(* no entry for the participant, or an entry whose code is not 200) and    *)
(* the body has a top-level code of 200, the outcome is direct success.    *)
(***************************************************************************)
HasTopLevelCode200(v) == JNum(200) \in Entries(v, "code")

C5_AsClaimed ==
  \A v \in KeyedDocsOf(call.addResponse.text) :
    (AddAnswered(call) /\ ~HasEntryWithCode200(v, call.participantId)
       /\ HasTopLevelCode200(v))
    => IsDirectSuccess(call)

(***************************************************************************)
(* C5, amended.  Whenever the body holds nothing truthy under the          *)
(* participant (no entry, or a null, false, 0 or empty one) and has a      *)
(* top-level code of 200, the outcome is direct success.                   *)
(***************************************************************************)
HasTruthyEntry(v, participantId) ==
  \E e \in Entries(v, participantId) : Truthy(e)

C5_Case ==
  /\ AddAnswered(call)
  /\ \E v \in KeyedDocsOf(call.addResponse.text) :
       ~HasTruthyEntry(v, call.participantId) /\ HasTopLevelCode200(v)

C5_TopLevelCode200 ==
  C5_Case =>
    /\ IsDirectSuccess(call)
    /\ call.response.status = 200
    /\ Len(call.requests) = 1

\* the body has an entry for another participant, or a null entry, and a
\* top-level code of 200
C5_Witness ==
  /\ C5_Case
  /\ call.pc = "done"
  /\ \E v \in KeyedDocsOf(call.addResponse.text) : Entries(v, "1234@c.us") # {}

(***************************************************************************)
(* C6.  Every add answer whose body is not a keyed structure but text      *)
(* containing "200" or, ignoring case, "success" (a body that is exactly   *)
(* 200 included) is a direct success.                                      *)
(***************************************************************************)
C6_Case ==
  /\ AddAnswered(call)
  /\ KeyedDocsOf(call.addResponse.text) = {}
  /\ \/ Includes(call.addResponse.text, <<"2", "0", "0">>)
     \/ Includes(ToLowerCase(call.addResponse.text), <<"s", "u", "c", "c", "e", "s", "s">>)

C6_TextSuccess ==
  C6_Case => IsDirectSuccess(call)

(***************************************************************************)
(* C7.  The verdict does not depend on the HTTP status of the add answer:  *)
(* two calls with the same request whose add answers carry the same body   *)
(* reach the same verdict, send the same requests and, given the same      *)
(* invite-code answer, end with the same outcome, whatever the two         *)
(* statuses are.                                                           *)
(***************************************************************************)
C7_StatusIndependent ==
  (AddAnswered(call) /\ AddAnswered(twin)
     /\ call.addResponse.text = twin.addResponse.text
     /\ call.inviteResponse = twin.inviteResponse)
  => /\ call.directAddSuccessful = twin.directAddSuccessful
     /\ call.addError = twin.addError
     /\ call.requests = twin.requests
     /\ call.pc = twin.pc
     /\ call.response = twin.response

\* two ended calls, one answered 200 and the other 500 with the same body,
\* once as a direct success and once through the fallback
C7_WitnessDirect ==
  /\ call.pc = "done" /\ twin.pc = "done"
  /\ call.addResponse.status = 500 /\ twin.addResponse.status = 200
  /\ IsDirectSuccess(call)

C7_Witness ==
  /\ call.pc = "done" /\ twin.pc = "done"
  /\ call.addResponse.status = 200 /\ twin.addResponse.status = 500
  /\ IsFallback(twin)

(***************************************************************************)
(* C8.  As claimed: when the add step fails with a top-level error e and   *)
(* the invite-code step answers OK with a code c under one of the          *)
(* candidate keys, the outcome is the fallback: status 200, the link       *)
(* https://chat.whatsapp.com/ followed by c, originalAddError equal to e,  *)
(* and a message that contains the student name and the course name when   *)
(* both were supplied.                                                     *)
(***************************************************************************)
IsText(v) == v.t = "string" /\ v.s # <<>>

\* the add body has the top-level error e and the add was judged a failure
AddFailedWithTopLevelError(c, e) ==
  /\ AddAnswered(c)
  /\ ~c.directAddSuccessful
  /\ IsText(e)
  /\ \E v \in KeyedDocsOf(c.addResponse.text) : e \in Entries(v, "error")

\* the invite-code answer is OK and holds the text code, not a blank one,
\* under a candidate key
InviteHoldsCode(c, code) ==
  /\ InviteAnswered(c)
  /\ IsOk(c.inviteResponse.status)
  /\ IsText(code)
  /\ \E i \in 1..Len(code.s) : code.s[i] # " "
  /\ \E w \in KeyedDocsOf(c.inviteResponse.text) :
       \E i \in 1..Len(CandidateKeys) : code \in Entries(w, CandidateKeys[i])

\* the values the invite-code answers hold under the candidate keys
C8_Codes ==
  UNION {UNION {Entries(w, CandidateKeys[i]) : i \in 1..Len(CandidateKeys)} :
           w \in {x \in InviteJson : x.t = "object"}}

\* the top-level errors the add answers hold
C8_Errors ==
  UNION {Entries(v, "error") : v \in {x \in AddJson : x.t = "object"}}

MessageNames(c) ==
  (Truthy(c.studentName) /\ Truthy(c.courseName)) =>
    /\ Includes(c.response.body.messageToSend.s, c.studentName.s)
    /\ Includes(c.response.body.messageToSend.s, c.courseName.s)

C8_AsClaimed ==
  \A e \in C8_Errors, code \in C8_Codes :
    (AddFailedWithTopLevelError(call, e) /\ InviteHoldsCode(call, code)) =>
      /\ IsFallback(call)
      /\ call.response.status = 200
      /\ call.response.body.inviteLink = JStr(<<"https://", "chat.whatsapp.com/">> \o code.s)
      /\ call.response.body.originalAddError = e
      /\ MessageNames(call)

(***************************************************************************)
(* C8, amended.  When the add body holds nothing truthy under the          *)
(* participant and the add is judged a failure with the top-level error    *)
(* text e, and the invite-code step answers OK with a structure in which   *)
(* the first candidate key (in the order inviteCode, code, data, link,     *)
(* invite) that holds a truthy value holds a text c that is not blank, the *)
(* outcome is the fallback: status 200, originalAddError equal to e, a     *)
(* message containing the student name and the course name when both were  *)
(* supplied and not empty, and the link https://chat.whatsapp.com/         *)
(* followed by c without its first "https://chat.whatsapp.com/", without   *)
(* its first "chat.whatsapp.com/" and without surrounding blanks.          *)
(***************************************************************************)
\* code is held by the first candidate key of w that holds a truthy value
FirstCandidateHolds(w, code) ==
  \E i \in 1..Len(CandidateKeys) :
    /\ Entries(w, CandidateKeys[i]) = {code}
    /\ \A j \in 1..(i - 1) : \A x \in Entries(w, CandidateKeys[j]) : ~Truthy(x)

NotBlank(s) == \E i \in 1..Len(s) : s[i] \notin {" ", "\n", "\t"}

\* the link the amended claim expects for the code text s
ExpectedLink(s) ==
  <<"https://", "chat.whatsapp.com/">>
  \o Trim(RemoveFirst(RemoveFirst(s, <<"https://", "chat.whatsapp.com/">>),
                      <<"chat.whatsapp.com/">>))

C8_Case(e, code) ==
  /\ AddFailedWithTopLevelError(call, e)
  /\ \A v \in KeyedDocsOf(call.addResponse.text) : ~HasTruthyEntry(v, call.participantId)
  /\ InviteAnswered(call)
  /\ IsOk(call.inviteResponse.status)
  /\ IsText(code)
  /\ NotBlank(code.s)
  /\ \E w \in KeyedDocsOf(call.inviteResponse.text) : FirstCandidateHolds(w, code)

C8_Fallback ==
  \A e \in C8_Errors, code \in C8_Codes :
    C8_Case(e, code) =>
      /\ IsFallback(call)
      /\ call.response.status = 200
      /\ call.response.body.inviteLink = JStr(ExpectedLink(code.s))
      /\ call.response.body.originalAddError = e
      /\ MessageNames(call)
      /\ Includes(call.response.body.messageToSend.s, ExpectedLink(code.s))

\* the fallback with both names supplied, from a code that came as a full link
C8_Witness ==
  /\ C8_Case(JStr(<<"rate limited">>), JStr(<<"https://", "chat.whatsapp.com/", "ABC123">>))
  /\ IsFallback(call)
  /\ Truthy(call.studentName) /\ Truthy(call.courseName)

(***************************************************************************)
(* C9.  When the direct add is judged a failure and the invite-code        *)
(* request is answered with a status that is not OK, the outcome is        *)
(* complete failure: status 500, success false, and both the captured      *)
(* direct-add error and the captured invite-fetch error in the response.   *)
(***************************************************************************)
C9_Case ==
  /\ AddAnswered(call)
  /\ ~call.directAddSuccessful
  /\ InviteAnswered(call)
  /\ ~(call.inviteResponse.status \in 200..299)

C9_CompleteFailure ==
  C9_Case =>
    /\ IsCompleteFailure(call)
    /\ call.response.status = 500
    /\ call.response.body.success = JBool(FALSE)
    /\ call.response.body.inviteLink = JNull
    /\ IsText(call.addError)
    /\ call.response.body.originalAddError = call.addError
    /\ IsText(call.inviteCodeError)
    /\ call.response.body.inviteCodeError = call.inviteCodeError
    /\ call.inviteCodeError.s
         = <<"HTTP ">> \o NumToStr(call.inviteResponse.status) \o <<": ">>
           \o call.inviteResponse.text

C9_Witness ==
  C9_Case /\ call.pc = "done"

(***************************************************************************)
(* C10.  When the add step fails and the invite-code answer is OK but      *)
(* holds no usable code (an empty body, an empty string, a structure with  *)
(* none of the candidate keys or with a value under them that is not       *)
(* text), the call records the distinguishing invite error and returns     *)
(* complete failure; no invite link is built from such an answer.          *)
(***************************************************************************)
NoUsableCode(text) ==
  \/ text = <<>>
  \/ JStr(<<>>) \in DocsOf(text)
  \/ \E w \in KeyedDocsOf(text) :
       \A i \in 1..Len(CandidateKeys) :
         \A x \in Entries(w, CandidateKeys[i]) : x.t # "string"

C10_Case ==
  /\ AddAnswered(call)
  /\ ~call.directAddSuccessful
  /\ InviteAnswered(call)
  /\ IsOk(call.inviteResponse.status)
  /\ NoUsableCode(call.inviteResponse.text)

C10_NoUsableCode ==
  C10_Case =>
    /\ IsCompleteFailure(call)
    /\ call.response.status = 500
    /\ call.response.body.inviteLink = JNull
    /\ call.response.body.inviteCodeError
         = JStr(<<"Invite code empty or not found in response">>)

(***************************************************************************)
(* Two calls that differ only behind the first participant.  Both requests *)
(* name the same group, student and course and the same first participant; *)
(* the external service gives both calls the same answers.                 *)
(***************************************************************************)
TailRequest ==
  /\ call.pc = "idle" /\ twin.pc = "idle"
  /\ \E chatId \in ChatIds, studentName \in StudentNames, courseName \in CourseNames,
        first \in ParticipantLists, second \in ParticipantLists :
       /\ Len(first) > 0 /\ Len(second) > 0
       /\ first[1] = second[1]
       /\ call' = OnRequest(chatId, JArr(first), studentName, courseName)
       /\ twin' = OnRequest(chatId, JArr(second), studentName, courseName)
  /\ UNCHANGED <<storeVars, page, dialog>>

TailAddResponds ==
  /\ call.pc = "awaitAdd" /\ twin.pc = "awaitAdd"
  /\ \E status \in AddStatuses, text \in AddTexts :
       /\ call' = OnAddResponse(call, status, text)
       /\ twin' = OnAddResponse(twin, status, text)
  /\ UNCHANGED <<storeVars, page, dialog>>

NextTail ==
  \/ TailRequest
  \/ TailAddResponds
  \/ TwinInviteResponds

SpecTail == Init /\ [][NextTail]_vars

(***************************************************************************)
(* C11.  Only the first participant identifier is used: two calls that     *)
(* differ only in the participants after the first one send the same       *)
(* requests to the external service and return the same outcome.           *)
(***************************************************************************)
C11_SameRequests == call.requests = twin.requests

\* the part of C11 about the outcome alone: the two calls answer alike
C11_SameOutcome ==
  /\ call.pc = twin.pc
  /\ call.response = twin.response
  /\ call.participantId = twin.participantId

C11_FirstParticipantOnly == C11_SameRequests /\ C11_SameOutcome

(***************************************************************************)
(* The course and student endpoints at work.  Each action serves one       *)
(* request and records it with its response in exchange, until the         *)
(* response is delivered.  Requests are served one after the other.  A     *)
(* write happens at the instant now + 1.                                   *)
(***************************************************************************)
\* the path segments a request addresses
PathIds == {NotAnObjectId, 1, 2}

\* the request bodies of the course endpoints: every pair of inputs
CourseBodies == [courseName : CourseNameInputs, sessions : CourseSessionsInputs]

\* a student as the registration page posts it
StudentBase ==
  [name |-> JStr(<<"Amina">>),
   email |-> JStr(<<"s", "u", "e", "@", "u", "c", ".", "s", "o">>),
   university |-> JStr(<<"SIU">>),
   phoneNumber |-> JStr(<<"0", "6", "1">>),
   courseId |-> JId(1),
   selectedSessions |-> JArr(<<Morning>>)]

\* a body that supplies no field
NoFields == [path \in StudentPaths |-> Undefined]

\* what a request body can hold under each field of a student
StudentInputs ==
  [path \in StudentPaths |->
     CASE path = "name" ->
            {Undefined, JStr(<<>>), JStr(<<"Amina">>), JStr(<<" ", "Hodan", " ">>)}
       [] path = "email" ->
            {Undefined, JStr(<<>>),
             JStr(<<"s", "u", "e", "@", "u", "c", ".", "s", "o">>),
             JStr(<<"S", "U", "E", "@", "u", "c", ".", "s", "o">>),
             JStr(<<"k", "e", "@", "u", "c", ".", "s", "o">>),
             JStr(<<"s", "u", "e", "@", "u", "c">>),
             JStr(<<"s", "u", "e", "@", "u", " ", "c", ".", "s", "o">>),
             JStr(<<"@", "u", "c", ".", "s", "o">>)}
       [] path = "university" -> {Undefined, JStr(<<"SIU">>)}
       [] path = "phoneNumber" -> {Undefined, JStr(<<>>), JStr(<<"0", "6", "1">>)}
       [] path = "courseId" -> {Undefined, JId(NotAnObjectId), JId(1), JId(2)}
       [] OTHER -> SessionsInputs]

\* the bodies that differ from base in at most one field
OneFieldFrom(base) ==
  {[base EXCEPT ![path] = value] : <<path, value>> \in
     UNION {{<<p, v>> : v \in StudentInputs[p]} : p \in StudentPaths}}

\* the bodies that depart from base in their name, email and selected sessions
\* at once
ThreeFieldsFrom(base) ==
  {[base EXCEPT !.name = n, !.email = e, !.selectedSessions = ss] :
     n \in {Undefined, JStr(<<"Amina">>)},
     e \in {Undefined, JStr(<<>>), JStr(<<"s", "u", "e", "@", "u", "c">>),
            JStr(<<"s", "u", "e", "@", "u", "c", ".", "s", "o">>)},
     ss \in SessionsInputs}

\* the request bodies of POST /api/students
StudentPostBodies == OneFieldFrom(StudentBase) \cup ThreeFieldsFrom(StudentBase)

\* the request bodies of PUT /api/students/[id]: at most one field, or a name
\* with an email
StudentPutBodies ==
  OneFieldFrom(NoFields) \cup
  {[NoFields EXCEPT !.name = n, !.email = e] :
     n \in StudentInputs["name"] \ {Undefined}, e \in StudentInputs["email"] \ {Undefined}}

\* the clock after a request: a request that changed a document is a write
Clock(before, after) == IF after # before THEN now + 1 ELSE now

ListCourses ==
  /\ exchange = NoExchange
  /\ \E response \in CoursesGET(courses) :
       exchange' = [op |-> "GET /api/courses", id |-> NotAnObjectId,
                    body |-> Undefined, response |-> response]
  /\ UNCHANGED <<courses, students, minted, now, call, twin, page, dialog>>

CreateCourse ==
  /\ exchange = NoExchange
  /\ now < MaxClock
  /\ \E body \in CourseBodies :
       LET id == minted.Course + 1
           outcome == CoursesPOST(courses, body, id, now + 1)
       IN  /\ courses' = outcome.collection
           /\ minted' = IF outcome.collection # courses
                        THEN [minted EXCEPT !.Course = id] ELSE minted
           /\ now' = Clock(courses, outcome.collection)
           /\ exchange' = [op |-> "POST /api/courses", id |-> NotAnObjectId,
                           body |-> body, response |-> outcome.response]
  /\ UNCHANGED <<students, call, twin, page, dialog>>

UpdateCourse ==
  /\ exchange = NoExchange
  /\ now < MaxClock
  /\ \E id \in PathIds, body \in CourseBodies :
       LET outcome == CoursePUT(courses, id, body, now + 1)
       IN  /\ courses' = outcome.collection
           /\ now' = Clock(courses, outcome.collection)
           /\ exchange' = [op |-> "PUT /api/courses/[id]", id |-> id,
                           body |-> body, response |-> outcome.response]
  /\ UNCHANGED <<students, minted, call, twin, page, dialog>>

DeleteCourse ==
  /\ exchange = NoExchange
  /\ \E id \in PathIds :
       LET outcome == CourseDELETE(courses, id)
       IN  /\ courses' = outcome.collection
           /\ exchange' = [op |-> "DELETE /api/courses/[id]", id |-> id,
                           body |-> Undefined, response |-> outcome.response]
  /\ UNCHANGED <<students, minted, now, call, twin, page, dialog>>

ListStudents ==
  /\ exchange = NoExchange
  /\ \E response \in StudentsGET(students, courses) :
       exchange' = [op |-> "GET /api/students", id |-> NotAnObjectId,
                    body |-> Undefined, response |-> response]
  /\ UNCHANGED <<courses, students, minted, now, call, twin, page, dialog>>

CreateStudent ==
  /\ exchange = NoExchange
  /\ now < MaxClock
  /\ \E body \in StudentPostBodies :
       LET id == minted.Student + 1
           outcome == StudentsPOST(students, body, id, now + 1)
       IN  /\ students' = outcome.collection
           /\ minted' = IF outcome.collection # students
                        THEN [minted EXCEPT !.Student = id] ELSE minted
           /\ now' = Clock(students, outcome.collection)
           /\ exchange' = [op |-> "POST /api/students", id |-> NotAnObjectId,
                           body |-> body, response |-> outcome.response]
  /\ UNCHANGED <<courses, call, twin, page, dialog>>

UpdateStudent ==
  /\ exchange = NoExchange
  /\ now < MaxClock
  /\ \E id \in PathIds, body \in StudentPutBodies, stamped \in BOOLEAN :
       LET outcome == StudentPUT(students, courses, id, body, now + 1, stamped)
       IN  /\ students' = outcome.collection
           /\ now' = Clock(students, outcome.collection)
           /\ exchange' = [op |-> "PUT /api/students/[id]", id |-> id,
                           body |-> body, response |-> outcome.response]
  /\ UNCHANGED <<courses, minted, call, twin, page, dialog>>

DeleteStudent ==
  /\ exchange = NoExchange
  /\ \E id \in PathIds :
       LET outcome == StudentDELETE(students, id)
       IN  /\ students' = outcome.collection
           /\ exchange' = [op |-> "DELETE /api/students/[id]", id |-> id,
                           body |-> Undefined, response |-> outcome.response]
  /\ UNCHANGED <<courses, minted, now, call, twin, page, dialog>>

\* the response has gone out; the next request can be served
Deliver ==
  /\ exchange # NoExchange
  /\ exchange' = NoExchange
  /\ UNCHANGED <<courses, students, minted, now, call, twin, page, dialog>>

\* the course and student endpoints, serving one request after the other
NextStore ==
  \/ ListCourses
  \/ CreateCourse
  \/ UpdateCourse
  \/ DeleteCourse
  \/ ListStudents
  \/ CreateStudent
  \/ UpdateStudent
  \/ DeleteStudent
  \/ Deliver

SpecStore == Init /\ [][NextStore]_vars

(***************************************************************************)
(* Vocabulary of the properties of the course and student endpoints.       *)
(***************************************************************************)
\* a request has been served and its response is at hand
Served(op) == exchange.op = op

StatusOf(x) == x.response.status
BodyOf(x)   == x.response.body

\* the response is the uniform envelope: a boolean success flag, with a data
\* payload when it is true and an error message when it is false
UniformEnvelope(body) ==
  /\ body.success.t = "boolean"
  /\ body.success = JBool(TRUE) => body.data # Undefined
  /\ body.success = JBool(FALSE) => body.error.t = "string"

(***************************************************************************)
(* C12.  Every response of every endpoint carries a boolean success flag   *)
(* together with a data payload when success is true, or an error message  *)
(* in the error field when success is false.                               *)
(***************************************************************************)
C12_UniformEnvelope ==
  /\ exchange # NoExchange => UniformEnvelope(BodyOf(exchange))
  /\ call.pc = "done" => UniformEnvelope(call.response.body)

\* the same for the responses of the course and student endpoints other than
\* the acknowledgement of a delete
C12_ExceptDeleted ==
  (exchange # NoExchange /\ BodyOf(exchange).message = Undefined)
    => UniformEnvelope(BodyOf(exchange))

\* this step serves a request of kind op
Serving(op) == exchange = NoExchange /\ exchange'.op = op

\* a creation request that an empty collection accepts
AcceptableStudent(body) == StudentsPOST({}, body, 1, 1).response.status = 201

\* the email of the body equals, ignoring case, the email of a stored student
EmailTaken(body) ==
  /\ body.email.t = "string"
  /\ \E s \in students : ToLowerCase(s.email) = ToLowerCase(body.email.s)

(***************************************************************************)
(* C13.  Creating a student whose email equals, ignoring case, the email   *)
(* of an already stored student fails with the conflict error (status 400, *)
(* 'A student with this email already exists') and does not add a second   *)
(* record.                                                                 *)
(***************************************************************************)
C13_DuplicateEmail ==
  [][(/\ Serving("POST /api/students")
      /\ AcceptableStudent(exchange'.body)
      /\ EmailTaken(exchange'.body))
       => /\ exchange'.response =
               ErrorResponse(400, "A student with this email already exists")
          /\ students' = students]_vars

\* the request carries no session list, or an empty one
NoSessionList(sessions) ==
  \/ sessions = Undefined
  \/ sessions.t = "array" /\ Len(sessions.a) = 0

\* the response is a validation error
ValidationError(x) ==
  StatusOf(x) = 400 /\ BodyOf(x).success = JBool(FALSE) /\ BodyOf(x).error.t = "string"

(***************************************************************************)
(* C14.  Every Course creation whose session list is missing or empty is   *)
(* rejected with a validation error (status 400) and no Course is added to *)
(* the store.                                                              *)
(***************************************************************************)
C14_EmptySessionsRejected ==
  [][(Serving("POST /api/courses") /\ NoSessionList(exchange'.body.sessions))
       => (ValidationError(exchange') /\ courses' = courses)]_vars

\* a creation with a name and an empty session list has been rejected while a
\* course is stored
C14_Witness ==
  /\ Served("POST /api/courses")
  /\ exchange.body = [courseName |-> JStr(<<"Networking">>), sessions |-> JArr(<<>>)]
  /\ StatusOf(exchange) = 400
  /\ courses # {}

\* s has no white space
NonSpace(s) == s # <<>> /\ \A i \in 1..Len(s) : ~IsSpace(s[i])

\* s reads non-space@non-space.non-space
WellFormedEmail(s) ==
  \E i, j \in 1..Len(s) :
    /\ i < j
    /\ s[i] = "@" /\ s[j] = "."
    /\ NonSpace(SubSeq(s, 1, i - 1))
    /\ NonSpace(SubSeq(s, i + 1, j - 1))
    /\ NonSpace(SubSeq(s, j + 1, Len(s)))

(***************************************************************************)
(* C15.  Every Student creation whose email does not match the pattern     *)
(* non-space@non-space.non-space is rejected with a validation error       *)
(* (status 400) and no Student is added to the store.                      *)
(***************************************************************************)
C15_MalformedEmailRejected ==
  [][(/\ Serving("POST /api/students")
      /\ (exchange'.body.email.t # "string" \/ ~WellFormedEmail(exchange'.body.email.s)))
       => (ValidationError(exchange') /\ students' = students)]_vars

\* a creation that is in order but for an email without a dot behind the "@"
\* has been rejected while a student is stored
C15_Witness ==
  /\ Served("POST /api/students")
  /\ exchange.body = [StudentBase EXCEPT !.email = JStr(<<"s", "u", "e", "@", "u", "c">>)]
  /\ StatusOf(exchange) = 400
  /\ students # {}

\* the documents a list response returns, as a set
Listed(x) == {BodyOf(x).data.a[i] : i \in 1..Len(BodyOf(x).data.a)}

\* a listed student is the stored student s; its courseId comes populated
ListsStudent(x, s) ==
  \E d \in Listed(x) : [d EXCEPT !.courseId = s.courseId] = s

\* the students whose course has been minted and is stored no longer
Orphans == {s \in students : s.courseId <= minted.Course /\ FindById(courses, s.courseId) = {}}

(***************************************************************************)
(* C16.  Deleting a Course removes only that Course: every Student that    *)
(* references it stays in the store with all fields unchanged, and a       *)
(* subsequent student list still returns those students.                   *)
(***************************************************************************)
C16_StudentList ==
  Served("GET /api/students") =>
    /\ StatusOf(exchange) = 200
    /\ \A s \in students : ListsStudent(exchange, s)
    /\ Cardinality(Listed(exchange)) = Cardinality(students)

C16_DeleteCourseOnly ==
  /\ []C16_StudentList
  /\ [][Serving("DELETE /api/courses/[id]")
          => /\ students' = students
             /\ courses' = courses \ FindById(courses, exchange'.id)]_vars

\* a course has been deleted while a student referencing it is stored
C16_Witness ==
  /\ Served("DELETE /api/courses/[id]")
  /\ StatusOf(exchange) = 200
  /\ \E s \in students : s.courseId = exchange.id

\* a student list has been served that returns a student of a deleted course
C16_ListWitness ==
  /\ Served("GET /api/students")
  /\ courses # {}
  /\ \E s \in Orphans : ListsStudent(exchange, s)

\* the fields a request body supplies
Supplied(body) == {path \in DOMAIN body : body[path] # Undefined}

\* from before to after, nothing has changed but fields of the document id
\* that are among free
OnlyChanged(before, after, id, free) ==
  /\ {d._id : d \in after} = {d._id : d \in before}
  /\ \A d \in before : \A e \in after :
       d._id = e._id =>
         \A field \in DOMAIN d :
           (d._id # id \/ field \notin free) => e[field] = d[field]

\* this step serves an update, and all it changes are fields of the addressed
\* document: those the request supplies, and those among stamps
UpdateChangesOnly(stamps) ==
  /\ Serving("PUT /api/courses/[id]") =>
       /\ students' = students
       /\ OnlyChanged(courses, courses', exchange'.id, Supplied(exchange'.body) \cup stamps)
  /\ Serving("PUT /api/students/[id]") =>
       /\ courses' = courses
       /\ OnlyChanged(students, students', exchange'.id, Supplied(exchange'.body) \cup stamps)

(***************************************************************************)
(* C17.  An update changes exactly the fields supplied in the request:     *)
(* every other field of the addressed record, and every other record in    *)
(* the store, is left unchanged.                                           *)
(* As the code has it: an update changes, besides the fields supplied in   *)
(* the request, the update timestamp updatedAt of the addressed record;    *)
(* every other field of that record, and every other record in the store,  *)
(* is left unchanged.                                                      *)
(***************************************************************************)
C17_AsClaimed == [][UpdateChangesOnly({})]_vars

C17_SuppliedFieldsOnly == [][UpdateChangesOnly({"updatedAt"})]_vars

\* an update that supplies a name alone has renamed one of two stored
\* students
C17_Witness ==
  /\ Served("PUT /api/students/[id]")
  /\ StatusOf(exchange) = 200
  /\ Supplied(exchange.body) = {"name"}
  /\ Cardinality(students) = 2
  /\ \E s \in students :
       s._id = exchange.id /\ s.name = <<"Hodan">> /\ s.updatedAt > s.createdAt

\* a session list that create rejects: empty, or with a session that lacks
\* its startTime or its endTime
RejectedSessions(sessions) ==
  /\ sessions.t = "array"
  /\ \/ Len(sessions.a) = 0
     \/ \E i \in 1..Len(sessions.a) :
          sessions.a[i].startTime = Undefined \/ sessions.a[i].endTime = Undefined

\* the body of a course update supplies a value that create rejects
CourseRejects(body) ==
  body.courseName = JStr(<<>>) \/ RejectedSessions(body.sessions)

\* the body of a student update supplies a value that create rejects
StudentRejects(body) ==
  \/ body.name = JStr(<<>>)
  \/ body.email.t = "string" /\ ~WellFormedEmail(body.email.s)
  \/ RejectedSessions(body.selectedSessions)

(***************************************************************************)
(* C18.  An update of a stored record that supplies a field with a value   *)
(* that create would reject (an empty courseName or name, an empty session *)
(* list, a session lacking startTime or endTime, a malformed email) is     *)
(* rejected with an error and leaves the record unchanged; such a field is *)
(* never silently ignored while the update reports success.                *)
(***************************************************************************)
C18_RejectedValuesRefused ==
  [][/\ (/\ Serving("PUT /api/courses/[id]")
         /\ FindById(courses, exchange'.id) # {}
         /\ CourseRejects(exchange'.body))
          => (BodyOf(exchange').success = JBool(FALSE) /\ courses' = courses)
     /\ (/\ Serving("PUT /api/students/[id]")
         /\ FindById(students, exchange'.id) # {}
         /\ StudentRejects(exchange'.body))
          => (BodyOf(exchange').success = JBool(FALSE) /\ students' = students)]_vars

\* the part of C18 that holds: a rejected session list is refused by both
\* updates, and so is an email that is malformed and not empty
C18_SessionsAndEmailRefused ==
  [][/\ (/\ Serving("PUT /api/courses/[id]")
         /\ RejectedSessions(exchange'.body.sessions))
          => (ValidationError(exchange') /\ courses' = courses)
     /\ (/\ Serving("PUT /api/students/[id]")
         /\ \/ RejectedSessions(exchange'.body.selectedSessions)
            \/ /\ Truthy(exchange'.body.email)
               /\ ~WellFormedEmail(exchange'.body.email.s))
          => (ValidationError(exchange') /\ students' = students)]_vars

\* a stored course and a stored student to try a request body on
SomeCourse ==
  [_id |-> 1, courseName |-> <<"Networking">>,
   sessions |-> <<[startTime |-> <<"8", ":", "0", "0">>, endTime |-> <<"9", ":", "0", "0">>]>>,
   createdAt |-> 1, updatedAt |-> 1]

SomeStudent == CHOOSE s \in StudentsPOST({}, StudentBase, 1, 1).collection : TRUE

\* an update body that is applied when the addressed record is stored
AcceptableCourseUpdate(body) ==
  CoursePUT({SomeCourse}, 1, body, 2).response.status = 200

AcceptableStudentUpdate(body) ==
  StudentPUT({SomeStudent}, {}, 1, body, 2, TRUE).response.status = 200

\* this step serves a request that is in order but is addressed to an
\* identifier in ids that names no stored record
AddressesNoRecord(ids) ==
  \/ /\ Serving("PUT /api/courses/[id]")
     /\ AcceptableCourseUpdate(exchange'.body)
     /\ exchange'.id \in ids /\ FindById(courses, exchange'.id) = {}
  \/ /\ Serving("DELETE /api/courses/[id]")
     /\ exchange'.id \in ids /\ FindById(courses, exchange'.id) = {}
  \/ /\ Serving("PUT /api/students/[id]")
     /\ AcceptableStudentUpdate(exchange'.body)
     /\ exchange'.id \in ids /\ FindById(students, exchange'.id) = {}
  \/ /\ Serving("DELETE /api/students/[id]")
     /\ exchange'.id \in ids /\ FindById(students, exchange'.id) = {}

NotFoundAndUnchanged ==
  /\ StatusOf(exchange') = 404
  /\ courses' = courses /\ students' = students

(***************************************************************************)
(* C19.  An update or a delete addressed to an identifier that names no    *)
(* stored record returns not found (status 404) and leaves the store       *)
(* unchanged; in particular, deleting the same record twice returns not    *)
(* found the second time.                                                  *)
(***************************************************************************)
C19_NotFound == [][AddressesNoRecord(PathIds) => NotFoundAndUnchanged]_vars

\* the part of C19 that holds: the same for the identifiers that are
\* ObjectIds
C19_ObjectIdNotFound ==
  [][AddressesNoRecord(PathIds \ {NotAnObjectId}) => NotFoundAndUnchanged]_vars

\* a record has been deleted a second time
C19_DeletedTwice ==
  /\ Served("DELETE /api/students/[id]")
  /\ StatusOf(exchange) = 404
  /\ exchange.id # NotAnObjectId /\ exchange.id <= minted.Student

\* the place of document d in a list of collection by creation time, newest
\* first: one more than the number of documents created later
Position(collection, d) ==
  1 + Cardinality({e \in collection : e.createdAt > d.createdAt})

\* the list response x returns every document of collection once, each at
\* its place
ListsNewestFirst(x, collection) ==
  LET list == BodyOf(x).data.a
  IN  /\ StatusOf(x) = 200
      /\ Len(list) = Cardinality(collection)
      /\ \A d \in collection :
           /\ Position(collection, d) \in 1..Len(list)
           /\ list[Position(collection, d)]._id = d._id
           /\ list[Position(collection, d)].createdAt = d.createdAt

\* the step leaves every document of the collection at its place
PositionsKept(before, after) ==
  \A d \in before : \A e \in after :
    d._id = e._id => Position(after, e) = Position(before, d)

(***************************************************************************)
(* C20.  GET /courses and GET /students return every stored record,        *)
(* ordered by creation time with the newest first; updating a record does  *)
(* not change its position in the list.                                    *)
(***************************************************************************)
C20_Lists ==
  /\ Served("GET /api/courses") =>
       /\ ListsNewestFirst(exchange, courses)
       /\ Listed(exchange) = courses
  /\ Served("GET /api/students") =>
       /\ ListsNewestFirst(exchange, students)
       /\ \A s \in students : ListsStudent(exchange, s)

C20_NewestFirst ==
  /\ []C20_Lists
  /\ [][/\ Serving("PUT /api/courses/[id]") => PositionsKept(courses, courses')
        /\ Serving("PUT /api/students/[id]") => PositionsKept(students, students')]_vars

\* a course list has been served that returns two courses, the later created
\* one first although the other one was updated after that
C20_Witness ==
  /\ Served("GET /api/courses")
  /\ Len(BodyOf(exchange).data.a) = 2
  /\ LET list == BodyOf(exchange).data.a
     IN  /\ list[1].createdAt > list[2].createdAt
         /\ list[2].updatedAt > list[1].updatedAt

\* the stored sessions hold, in order, the strings the request holds, each
\* passed through convert
SessionsAgree(sessions, stored, convert(_)) ==
  /\ Len(stored) = Len(sessions.a)
  /\ \A i \in 1..Len(stored) :
       /\ stored[i].startTime = convert(sessions.a[i].startTime.s)
       /\ stored[i].endTime = convert(sessions.a[i].endTime.s)

\* the string itself
Verbatim(s) == s

\* every list of the courses of the next state returns the course just created
\* with the sessions of the request, each string passed through convert
ListReturnsCreated(convert(_)) ==
  \A response \in CoursesGET(courses') :
    \E i \in 1..Len(response.body.data.a) :
      /\ response.body.data.a[i]._id = minted'.Course
      /\ SessionsAgree(exchange'.body.sessions, response.body.data.a[i].sessions, convert)

\* this step serves a creation of a course and accepts it
AcceptingCourse == Serving("POST /api/courses") /\ StatusOf(exchange') = 201

(***************************************************************************)
(* C21.  For every session list accepted by Course create, a subsequent    *)
(* course list returns that course with the same startTime and endTime     *)
(* strings, in the same order, verbatim, with no normalization or          *)
(* reformatting.                                                           *)
(***************************************************************************)
C21_AsClaimed == [][AcceptingCourse => ListReturnsCreated(Verbatim)]_vars

\* C21 as amended: for every session list accepted by Course create, a
\* subsequent course list returns that course with the same startTime and
\* endTime strings, in the same order, each with the white space at its two
\* ends removed and otherwise unchanged
C21_VerbatimAfterTrim == [][AcceptingCourse => ListReturnsCreated(Trim)]_vars

\* a course created from a padded session is stored
C21_Witness ==
  /\ Served("POST /api/courses")
  /\ StatusOf(exchange) = 201
  /\ exchange.body.sessions = JArr(<<Padded>>)
  /\ \E c \in courses : c._id = minted.Course /\ c.sessions = <<CastCourseSession(Morning)>>

\* a value that is absent or the empty string
Absent(v) == v = Undefined \/ v = JStr(<<>>)

\* the four validation rules of a student creation, in their fixed order:
\* 1 a required field is missing, 2 the session list is missing or empty,
\* 3 the email is malformed, 4 a session lacks its startTime or endTime
ViolatedRules(body) ==
  {rule \in 1..4 :
     CASE rule = 1 ->
            \E path \in StudentPaths \ {"selectedSessions"} : Absent(body[path])
       [] rule = 2 ->
            body.selectedSessions.t # "array" \/ Len(body.selectedSessions.a) = 0
       [] rule = 3 ->
            body.email.t = "string" /\ ~WellFormedEmail(body.email.s)
       [] rule = 4 ->
            /\ body.selectedSessions.t = "array"
            /\ \E i \in 1..Len(body.selectedSessions.a) :
                 \/ Absent(body.selectedSessions.a[i].startTime)
                 \/ Absent(body.selectedSessions.a[i].endTime)}

\* the error message of each rule
RuleError(rule) ==
  CASE rule = 1 -> Message("All fields are required")
    [] rule = 2 -> Message("At least one session must be selected")
    [] rule = 3 -> Message("Please enter a valid email address")
    [] rule = 4 -> Message("Each session must have startTime and endTime")

\* the first rule of a non-empty set of rules
FirstRule(rules) == CHOOSE rule \in rules : \A other \in rules : rule <= other

(***************************************************************************)
(* C22.  When a student creation payload violates several validation       *)
(* rules at once, exactly one error is returned, and it is that of the     *)
(* first violated rule in the fixed order: missing required field, missing *)
(* or empty session list, malformed email, session lacking startTime or    *)
(* endTime.                                                                *)
(***************************************************************************)
C22_FirstViolationWins ==
  (Served("POST /api/students") /\ Cardinality(ViolatedRules(exchange.body)) >= 2)
    => /\ ValidationError(exchange)
       /\ BodyOf(exchange).error = RuleError(FirstRule(ViolatedRules(exchange.body)))

\* a creation with a malformed email and a session without endTime has been
\* answered
C22_Witness ==
  /\ Served("POST /api/students")
  /\ ViolatedRules(exchange.body) = {3, 4}
  /\ BodyOf(exchange).error = Message("Please enter a valid email address")

\* a creation that violates the second and the third rule has been answered
C22_SessionsBeforeEmail ==
  /\ Served("POST /api/students")
  /\ ViolatedRules(exchange.body) = {2, 3}

\* a creation that violates the first three rules has been answered (the second
\* and the fourth rule exclude each other)
C22_FirstThree ==
  /\ Served("POST /api/students")
  /\ ViolatedRules(exchange.body) = {1, 2, 3}

\* no two stored students have the same lower-cased email
EmailsUnique(collection) ==
  \A s, t \in collection : ToLowerCase(s.email) = ToLowerCase(t.email) => s._id = t._id

(***************************************************************************)
(* C23.  In every reachable state, under any interleaving of student       *)
(* create and update calls (including two creates with the same email and  *)
(* an update that changes an email to one already in use), no two stored   *)
(* students have the same lower-cased email.                               *)
(***************************************************************************)
C23_UniqueEmails == EmailsUnique(students)

\* the part of C23 that is about updates: an update never makes two emails
\* equal
C23_UpdateKeepsUnique ==
  [][(Serving("PUT /api/students/[id]") /\ EmailsUnique(students))
       => EmailsUnique(students')]_vars

(***************************************************************************)
(* C25.  Every student creation that succeeds references a Course that     *)
(* exists in the store at that moment; a creation whose courseId names no  *)
(* stored Course does not add a student.                                   *)
(***************************************************************************)
C25_CourseExists ==
  [][Serving("POST /api/students")
       => /\ StatusOf(exchange') = 201
               => FindById(courses, exchange'.body.courseId.n) # {}
          /\ (\/ exchange'.body.courseId = Undefined
              \/ FindById(courses, exchange'.body.courseId.n) = {})
               => students' = students]_vars

\* the part of C25 that holds: a creation whose courseId is absent or names no
\* ObjectId adds no student
C25_CourseIdCast ==
  [][(/\ Serving("POST /api/students")
      /\ \/ exchange'.body.courseId = Undefined
         \/ exchange'.body.courseId.n = NotAnObjectId)
       => students' = students]_vars

\* a list of stored sessions that is not empty and whose sessions each have a
\* non-empty startTime and endTime
SessionsSound(sessions) ==
  /\ Len(sessions) >= 1
  /\ \A i \in 1..Len(sessions) : sessions[i].startTime # <<>> /\ sessions[i].endTime # <<>>

(***************************************************************************)
(* C24.  In every state reachable by any sequence of create, update and    *)
(* delete calls, every stored Course (sessions variant) has at least one   *)
(* session and every stored Student has at least one selected session,     *)
(* each session having a non-empty startTime and endTime.                  *)
(***************************************************************************)
C24_SessionsNonEmpty ==
  /\ \A c \in courses : SessionsSound(c.sessions)
  /\ \A s \in students : SessionsSound(s.selectedSessions)

\* a course and a student are stored, and an update of the course to a session
\* whose startTime is one space has been refused
C24_Witness ==
  /\ courses # {} /\ students # {}
  /\ Served("PUT /api/courses/[id]")
  /\ FindById(courses, exchange.id) # {}
  /\ exchange.body.sessions = JArr(<<Blank>>)
  /\ StatusOf(exchange) = 500

\* an update of a stored student to an empty session list has been refused
C24_StudentWitness ==
  /\ Served("PUT /api/students/[id]")
  /\ FindById(students, exchange.id) # {}
  /\ exchange.body.selectedSessions = JArr(<<>>)
  /\ StatusOf(exchange) = 400

\* the sessions of a stored list, as a set
SessionSet(sessions) == {sessions[i] : i \in 1..Len(sessions)}

\* every list of the students of the next state returns each student stored
\* before the step with the selected sessions it had before the step
SelectionsKept ==
  \A s \in students :
    \A response \in StudentsGET(students', courses') :
      \E i \in 1..Len(response.body.data.a) :
        /\ response.body.data.a[i]._id = s._id
        /\ response.body.data.a[i].selectedSessions = s.selectedSessions

(***************************************************************************)
(* C26.  A student's selectedSessions are a snapshot: once a student is    *)
(* stored, any later update of the session list of its Course leaves the   *)
(* student's selectedSessions unchanged, even when a selected session no   *)
(* longer exists in the Course.                                            *)
(***************************************************************************)
C26_Snapshot ==
  [][Serving("PUT /api/courses/[id]") => (students' = students /\ SelectionsKept)]_vars

\* the course of a stored student has been updated to a session list that
\* lacks a session the student selected
C26_Witness ==
  /\ Served("PUT /api/courses/[id]")
  /\ StatusOf(exchange) = 200
  /\ exchange.body.sessions # Undefined
  /\ \E s \in students, c \in courses :
       /\ s.courseId = c._id /\ c._id = exchange.id
       /\ ~(SessionSet(s.selectedSessions) \subseteq SessionSet(c.sessions))

(***************************************************************************)
(* Vocabulary of the add error of the invitation flow.                     *)
(***************************************************************************)
\* the direct add has been judged
Judged(c) == AddAnswered(c) /\ c.pc \in {"awaitInvite", "done"}

\* text begins with prefix
StartsWith(text, prefix) ==
  Len(text) >= Len(prefix) /\ SubSeq(text, 1, Len(prefix)) = prefix

\* a generic message: one that quotes neither an entry's message nor a
\* top-level error
Generic(v) ==
  /\ v.t = "string"
  /\ \/ v.s = <<"No success code in response body">>
     \/ v.s = <<"Empty or invalid response body">>
     \/ StartsWith(v.s, <<"Failed with code ">>)
     \/ StartsWith(v.s, <<"String response: ">>)

\* the truthy entries the add answer holds under the participant, their truthy
\* messages, and the truthy top-level errors of the answer
EntriesOf(c) ==
  {e \in UNION {Entries(d, c.participantId) : d \in KeyedDocsOf(c.addResponse.text)} :
     Truthy(e)}
MessagesOf(c) ==
  {m \in UNION {Entries(e, "message") : e \in {x \in EntriesOf(c) : x.t = "object"}} :
     Truthy(m)}
ErrorsOf(c) ==
  {e \in UNION {Entries(d, "error") : d \in KeyedDocsOf(c.addResponse.text)} : Truthy(e)}

\* the add error is the entry's message, else the top-level error, else a
\* generic message
CapturedInOrder(c) ==
  IF MessagesOf(c) # {} THEN c.addError \in MessagesOf(c)
  ELSE IF ErrorsOf(c) # {} THEN c.addError \in ErrorsOf(c)
  ELSE Generic(c.addError)

\* the add error is read from the participant's entry when the answer holds
\* one (its message, else a generic message), and only without an entry from
\* the top level (the top-level error, else a generic message)
CapturedEntryFirst(c) ==
  IF MessagesOf(c) # {} THEN c.addError \in MessagesOf(c)
  ELSE IF EntriesOf(c) # {} THEN Generic(c.addError)
  ELSE IF ErrorsOf(c) # {} THEN c.addError \in ErrorsOf(c)
  ELSE Generic(c.addError)

\* what C27 says of call c, with captured(c) the rule by which the error is
\* picked
AddErrorCaptured(c, captured(_)) ==
  /\ (Judged(c) /\ ~c.directAddSuccessful) => (Truthy(c.addError) /\ captured(c))
  /\ (Judged(c) /\ c.directAddSuccessful) => c.addError = JNull
  /\ (IsFallback(c) \/ IsCompleteFailure(c))
       => (c.response.body.originalAddError = c.addError /\ Truthy(c.addError))

(***************************************************************************)
(* C27.  Whenever the direct add is judged a failure a non-empty add error *)
(* has been captured (the participant entry's message, else the top-level  *)
(* error, else a generic message), and whenever it is judged a success no  *)
(* add error is captured; hence every fallback and every complete-failure  *)
(* response carries originalAddError.                                      *)
(***************************************************************************)
C27_AsClaimed == AddErrorCaptured(call, CapturedInOrder)

\* C27 as amended: the captured error is the participant entry's message or,
\* when the answer holds an entry without a message, a generic message; only
\* when the answer holds no entry is it the top-level error, else a generic
\* message
C27_AddErrorCaptured == AddErrorCaptured(call, CapturedEntryFirst)

\* a complete failure whose add answer held an entry without a message beside
\* a top-level error
C27_Witness ==
  /\ IsCompleteFailure(call)
  /\ EntriesOf(call) # {} /\ MessagesOf(call) = {} /\ ErrorsOf(call) # {}
  /\ call.response.body.originalAddError = JStr(<<"Failed with code ", "4", "0", "3">>)

\* a fallback that carries an entry's message
C27_MessageWitness ==
  /\ IsFallback(call)
  /\ call.response.body.originalAddError = JStr(<<"not an admin">>)

\* a display string has been supplied: the request holds a string that is not
\* empty
Named(v) == v.t = "string" /\ v.s # <<>>

\* the names a request can supply
DisplayNames(inputs) == {v \in inputs : Named(v)}

(***************************************************************************)
(* C28.  The composed fallback message always contains the invite link; it *)
(* contains the student name exactly when studentName was supplied, and    *)
(* the course name exactly when both studentName and courseName were       *)
(* supplied (a courseName supplied alone is not used).                     *)
(***************************************************************************)
C28_ComposedMessage ==
  IsFallback(call) =>
    LET message == call.response.body.messageToSend.s
    IN  /\ Includes(message, call.response.body.inviteLink.s)
        /\ \A name \in DisplayNames(StudentNames) :
             Includes(message, name.s) <=> call.studentName = name
        /\ \A name \in DisplayNames(CourseNames) :
             Includes(message, name.s)
               <=> (call.courseName = name /\ Named(call.studentName))

\* a fallback for a request that supplied a course name and no student name
C28_Witness ==
  /\ IsFallback(call)
  /\ call.studentName = Undefined
  /\ Named(call.courseName)
  /\ ~Includes(call.response.body.messageToSend.s, call.courseName.s)

\* a fallback for a request that supplied both names
C28_BothWitness ==
  /\ IsFallback(call)
  /\ Named(call.studentName) /\ Named(call.courseName)
  /\ Includes(call.response.body.messageToSend.s, call.studentName.s)
  /\ Includes(call.response.body.messageToSend.s, call.courseName.s)

(***************************************************************************)
(* The registration page.  Each step is one handler with the render and    *)
(* the effects that follow it.                                             *)
(***************************************************************************)
\* the page is mounted and fetchCourses has ended
PageMount ==
  /\ page.pc = "unmounted"
  /\ \E fetched \in FetchedCourses :
       page' = [page EXCEPT !.pc = "ready", !.handled = "fetchCourses", !.courses = fetched]
  /\ UNCHANGED <<call, twin, storeVars, dialog>>

\* onSelect of a course of the popover: field.onChange(course._id), then the
\* effect on selectedCourseId
PageSelectCourse ==
  /\ page.pc = "ready"
  /\ \E i \in 1..Len(page.courses) :
       LET changed == [page.values EXCEPT !.courseId = page.courses[i]._id]
       IN  page' = Rendered([page EXCEPT
                     !.handled = "onSelect",
                     !.values = PageCourseEffect(page.values.courseId, changed)])
  /\ UNCHANGED <<call, twin, storeVars, dialog>>

\* onCheckedChange of the checkbox of a session of the selected course
PageToggle ==
  /\ page.pc = "ready"
  /\ \E course \in SelectedCourse(page.courses, page.values.courseId) :
       \E i \in 1..Len(course.sessions) :
         page' = Rendered([page EXCEPT
                   !.handled = "toggleSession",
                   !.values.selectedSessions =
                     ToggleSession(course.sessions[i], page.values.selectedSessions)])
  /\ UNCHANGED <<call, twin, storeVars, dialog>>

\* form.handleSubmit(onSubmit): the resolver accepts a chosen course with at
\* least one session; the data is posted, and the form is reset when the
\* answer reports success
PageSubmit ==
  /\ page.pc = "ready"
  /\ page.values.courseId # Unselected
  /\ Len(page.values.selectedSessions) >= 1
  /\ \E success \in BOOLEAN :
       page' = Rendered([page EXCEPT
                 !.handled = "onSubmit",
                 !.posted = page.values,
                 !.values = IF success THEN Values(Unselected, <<>>) ELSE @])
  /\ UNCHANGED <<call, twin, storeVars, dialog>>

NextJoin ==
  \/ PageMount
  \/ PageSelectCourse
  \/ PageToggle
  \/ PageSubmit

SpecJoin == Init /\ [][NextJoin]_vars

\* a list without repetitions
NoRepeats(sessions) ==
  \A i, j \in 1..Len(sessions) : sessions[i] = sessions[j] => i = j

\* every session selected in the values belongs to the course selected in
\* them, as the form fetched it, and none is selected twice
SelectionSound(fetched, values) ==
  /\ \A i \in 1..Len(values.selectedSessions) :
       \E course \in SelectedCourse(fetched, values.courseId) :
         values.selectedSessions[i] \in SessionSet(course.sessions)
  /\ NoRepeats(values.selectedSessions)

(***************************************************************************)
(* C29.  On the student registration page, after any sequence of course    *)
(* selections and session toggles, every selected session belongs to the   *)
(* session list of the currently selected course, and no session is        *)
(* selected twice; selecting a course clears the previous selection.       *)
(***************************************************************************)
C29_AsClaimed ==
  /\ SelectionSound(page.courses, page.values)
  /\ page.selectedSessions = page.values.selectedSessions
  /\ page.handled = "onSelect" => page.values.selectedSessions = <<>>

\* C29 as amended: ...; selecting a course other than the selected one clears
\* the previous selection, and selecting the selected course again keeps it
C29_SelectionSound ==
  /\ [](/\ SelectionSound(page.courses, page.values)
        /\ page.selectedSessions = page.values.selectedSessions)
  /\ [][page'.handled = "onSelect" =>
          page'.values.selectedSessions =
            IF page'.values.courseId # page.values.courseId
            THEN <<>> ELSE page.values.selectedSessions]_vars

\* two sessions are selected and the last handler was a toggle
C29_Witness ==
  /\ page.handled = "toggleSession"
  /\ Len(page.values.selectedSessions) = 2

\* a course has been selected in place of another whose sessions were selected
C29_ClearedWitness ==
  /\ page.handled = "onSelect"
  /\ page.values.selectedSessions = <<>>
  /\ page.posted.courseId \notin {Unselected, page.values.courseId}

(***************************************************************************)
(* The edit dialog of a student.  It is opened on a student whose selected *)
(* sessions belong to its course as the dialog fetched it.                 *)
(***************************************************************************)
\* the dialog opens on a student: fetchCourses ends and the form is reset to
\* defaultValues; the effect on selectedCourseId finds the student's course
DialogOpen ==
  /\ dialog.pc = "closed"
  /\ \E fetched \in FetchedCourses \ {<<>>} :
       \E i \in 1..Len(fetched) :
         \E chosen \in UNION {[1..n -> {fetched[i].sessions[k] :
                                          k \in 1..Len(fetched[i].sessions)}] : n \in 1..2} :
           /\ \A j, k \in 1..Len(chosen) : chosen[j] = chosen[k] => j = k
           /\ LET defaultValues == Values(fetched[i]._id, chosen)
              IN  dialog' = Rendered([dialog EXCEPT
                              !.pc = "open", !.handled = "open", !.courses = fetched,
                              !.defaultValues = defaultValues,
                              !.values = DialogCourseEffect(Unselected, defaultValues,
                                                            defaultValues)])
  /\ UNCHANGED <<call, twin, storeVars, page>>

\* onSelect of a course of the popover, then the effect on selectedCourseId
DialogSelectCourse ==
  /\ dialog.pc = "open"
  /\ \E i \in 1..Len(dialog.courses) :
       LET changed == [dialog.values EXCEPT !.courseId = dialog.courses[i]._id]
       IN  dialog' = Rendered([dialog EXCEPT
                       !.handled = "onSelect",
                       !.values = DialogCourseEffect(dialog.values.courseId,
                                                     dialog.defaultValues, changed)])
  /\ UNCHANGED <<call, twin, storeVars, page>>

\* onClick of the button of a session of the selected course
DialogToggle ==
  /\ dialog.pc = "open"
  /\ \E course \in SelectedCourse(dialog.courses, dialog.values.courseId) :
       \E i \in 1..Len(course.sessions) :
         dialog' = Rendered([dialog EXCEPT
                     !.handled = "toggleSession",
                     !.values.selectedSessions =
                       ToggleSession(course.sessions[i], dialog.values.selectedSessions)])
  /\ UNCHANGED <<call, twin, storeVars, page>>

\* form.handleSubmit(handleSubmit): the resolver accepts a chosen course with
\* at least one session; the data goes to onSubmit, the form is reset and the
\* dialog closes
DialogSubmit ==
  /\ dialog.pc = "open"
  /\ dialog.values.courseId # Unselected
  /\ Len(dialog.values.selectedSessions) >= 1
  /\ dialog' = Rendered([dialog EXCEPT
                 !.pc = "closed", !.handled = "handleSubmit",
                 !.submitted = dialog.values,
                 !.values = Values(Unselected, <<>>)])
  /\ UNCHANGED <<call, twin, storeVars, page>>

NextEdit ==
  \/ DialogOpen
  \/ DialogSelectCourse
  \/ DialogToggle
  \/ DialogSubmit

SpecEdit == Init /\ [][NextEdit]_vars

\* every session of the values belongs to the course of the values, as the
\* form fetched it
SelectionBelongs(fetched, values) ==
  \A i \in 1..Len(values.selectedSessions) :
    \E course \in SelectedCourse(fetched, values.courseId) :
      values.selectedSessions[i] \in SessionSet(course.sessions)

(***************************************************************************)
(* C30.  In the student edit form opened on a student whose selected       *)
(* sessions belong to its course, after any sequence of course changes     *)
(* (including changing away from the original course and back to it) and   *)
(* session toggles, every selected session at submission belongs to the    *)
(* session list of the course selected at submission.                      *)
(***************************************************************************)
C30_SubmittedBelongs ==
  dialog.handled = "handleSubmit" => SelectionBelongs(dialog.courses, dialog.submitted)

\* the part of C30 that holds: a submission for a course other than the
\* original one holds sessions of that course only
C30_OtherCourseBelongs ==
  (dialog.handled = "handleSubmit"
     /\ dialog.submitted.courseId # dialog.defaultValues.courseId)
    => SelectionBelongs(dialog.courses, dialog.submitted)

\* the dialog opens on students whose selected sessions belong to their course
C30_OpenedSound ==
  dialog.handled = "open" => SelectionBelongs(dialog.courses, dialog.values)

=============================================================================
